---- MODULE Spec2Model ----
(***************************************************************************)
(* A model of the MEVAL graph loader (src/src/loader.py), the Model Index  *)
(* lookup it uses (src/src/parser.py) and the workflow that drives it      *)
(* (src/workflows/prefect/upsert_workflow.py).                             *)
(*                                                                         *)
(* The graph store is a table of nodes and a table of relationships, each  *)
(* keyed by the store's internal id.  A Cypher statement is modelled by    *)
(* what it does to these tables, row by row, in UNWIND order.              *)
(***************************************************************************)
EXTENDS Integers, Sequences, FiniteSets, TLC

VARIABLES
    db,          \* the committed state of the graph store: [nodes, rels]
    pc,          \* the position of the running operation
    omit_zero,   \* whether the store's counters leave out the counters that are 0
    node_type,   \* upsert_chunk_records_with_tx: its node_type argument
    records,     \* upsert_chunk_records_with_tx: its records argument
    hist,        \* the calls made so far: [state, summary, before, after]
    tx,          \* <<the open transaction's view of the store>>, or NoTx
    edge_list,   \* upsert_chunk_relationships_with_tx: its edge_list argument
    summary_list,\* upsert_chunk_relationships_with_tx: the groups' summaries
    ret,         \* the value the last call returned
    err,         \* the error the last call raised, or NoErr
    chunk,       \* the row batch given to an extractor
    subgraph_col,\* generate_chunk_records: its subgraph_col argument, or NoCol
    failures,    \* the write errors and aborts so far
    file_list,   \* upsert_files: the files, each its columns and rows
    chunk_size,  \* the rows per batch
    run,         \* which run of upsert_files this is
    fi,          \* upsert_files: the file the loop is at
    ci,          \* the file pass: the batch the loop is at
    retry_count, \* upsert_file_relationships: retry_count
    file_summary_list, \* the file pass: its summary_list
    db0,         \* the store before the first run
    node_commits,\* the node batches committed in this run
    rel_txs,     \* the relationship transactions begun in this run
    passes,      \* the file passes begun in this run: [kind, file, db at its
                 \* start, writes: the node batches whose write was run]
    batch_size,  \* the wipe: the entities one delete statement may take
    subgraph_value, \* wipe_subgraph: its subgraph_value argument
    node_ids,    \* wipe_subgraph: node_ids
    delete_nodes,\* the wipe: delete_nodes
    deleted_count, \* the wipe: deleted_count of the last delete statement
    rounds       \* the wipe: the delete statements run so far

vars == <<db, pc, omit_zero, node_type, records, hist, tx, edge_list,
          summary_list, ret, err, chunk, subgraph_col, failures, file_list,
          chunk_size, run, fi, ci, retry_count, file_summary_list, db0,
          node_commits, rel_txs, passes, batch_size, subgraph_value, node_ids,
          delete_nodes, deleted_count, rounds>>

nodeVars == <<node_type, records>>
relVars == <<tx, edge_list, summary_list, ret, err>>
extVars == <<chunk, subgraph_col>>
loadVars == <<file_list, chunk_size, run, fi, ci, retry_count,
              file_summary_list, db0, node_commits, rel_txs, passes>>
loadFrame == <<file_list, chunk_size, run, fi, ci, retry_count,
               file_summary_list, db0, node_commits, rel_txs>>
wipeVars == <<batch_size, subgraph_value, node_ids, delete_nodes, deleted_count,
              rounds>>

----------------------------------------------------------------------------
(* Bounds of the model.                                                    *)

MaxRecords == 2
MaxApply == 2
MaxStoreNodes == 2
MaxEdges == 2
MaxRows == 2
MaxFailures == 3
MaxRuns == 2
MaxChunkSize == 2
MaxBatch == 2

----------------------------------------------------------------------------
(* Values.                                                                 *)

\* A property a node does not have (Cypher's null).
NULL == "<null>"

\* The property names of the modelled schema.
Keys == {"guid", "name"}

\* Loader's id_field default.
id_field == "guid"

\* The cell values of the modelled files; "" is the empty cell.
Values == {"", "x", "y"}

Labels == {"participant", "sample"}

Min(S) == CHOOSE x \in S : \A y \in S : x <= y

Range(s) == {s[i] : i \in DOMAIN s}

\* The elements of seq at the indices in S, in order.
RECURSIVE Pick(_, _, _)
Pick(seq, S, i) ==
    IF i > Len(seq)
    THEN <<>>
    ELSE (IF i \in S THEN <<seq[i]>> ELSE <<>>) \o Pick(seq, S, i + 1)

\* The store's next internal id: the smallest one not in use.
FreshId(table) ==
    Min({i \in 1..(Cardinality(DOMAIN table) + 1) : i \notin DOMAIN table})

EmptyTable == [i \in {} |-> NULL]

EmptyDb == [nodes |-> EmptyTable, rels |-> EmptyTable]

\* tx when no transaction is open; an open one is <<its view of the store>>.
NoTx == <<>>

NoErr == [kind |-> "none", call |-> 0]

NoRet == <<>>

\* The wipe's variables while no wipe runs.
NoWipe ==
    /\ batch_size = 1
    /\ subgraph_value = NULL
    /\ node_ids = <<>>
    /\ delete_nodes = 0
    /\ deleted_count = 0
    /\ rounds = 0

\* record.k in Cypher: null when the map has no such key.
Get(record, k) == IF k \in DOMAIN record THEN record[k] ELSE NULL

----------------------------------------------------------------------------
(* Result counters.                                                        *)

CounterKeys == {"nodes_created", "properties_set", "relationships_created"}

\* vars(summary.counters): the counters the store reported.  A store that
\* reports only its non-zero counters gives a dict without the others.
Counters(raw, omit) ==
    IF omit
    THEN [k \in {c \in DOMAIN raw : raw[c] # 0} |-> raw[k]]
    ELSE raw

\* summary.get(key, 0)
SummaryGet(summary, key) == IF key \in DOMAIN summary THEN summary[key] ELSE 0

----------------------------------------------------------------------------
(* Node upsert: Loader.upsert_chunk_records_with_tx.                       *)

\* all_keys: the union of the records' keys.
AllKeys(recs) == UNION {DOMAIN recs[i] : i \in DOMAIN recs}

\* SET n.k = record.k for every k of all_keys; a null value removes k.
SetClause(props, record, all_keys) ==
    [k \in Keys |-> IF k \in all_keys THEN Get(record, k) ELSE props[k]]

\* A MERGE that matches nothing.
MergeMatches_None(nodes, type, record, idf) == {}

\* The nodes MERGE (n:node_type {id_field: record.id_field}) matches.
MergeMatches(nodes, type, record, idf) ==
    {i \in DOMAIN nodes :
        nodes[i].label = type /\ nodes[i].props[idf] = Get(record, idf)}

\* MERGE finds no node: it creates one, and ON CREATE SET sets its properties.
CreateNodeRow(nodes, type, record, idf, all_keys) ==
    LET blank == [k \in Keys |-> IF k = idf THEN Get(record, idf) ELSE NULL]
    IN  [nodes   |-> nodes @@ (FreshId(nodes) :>
                        [label |-> type,
                         props |-> SetClause(blank, record, all_keys),
                         updated |-> FALSE]),
         created |-> 1,
         touched |-> 1]

\* MERGE written as CREATE.
MergeNodeRow_AlwaysCreate(nodes, type, record, idf, all_keys) ==
    CreateNodeRow(nodes, type, record, idf, all_keys)

\* One row of UNWIND $records: MERGE, then ON CREATE SET or ON MATCH SET.
MergeNodeRow(nodes, type, record, idf, all_keys) ==
    LET matched == MergeMatches(nodes, type, record, idf)
    IN  IF matched = {}
        THEN CreateNodeRow(nodes, type, record, idf, all_keys)
        ELSE [nodes   |-> [i \in DOMAIN nodes |->
                             IF i \in matched
                             THEN [label |-> nodes[i].label,
                                   props |-> SetClause(nodes[i].props, record, all_keys),
                                   updated |-> TRUE]
                             ELSE nodes[i]],
              created |-> 0,
              touched |-> Cardinality(matched)]

RECURSIVE MergeNodeRows(_, _, _, _, _, _)
MergeNodeRows(acc, type, recs, idf, all_keys, i) ==
    IF i > Len(recs)
    THEN acc
    ELSE LET r == MergeNodeRow(acc.nodes, type, recs[i], idf, all_keys)
         IN  MergeNodeRows([nodes   |-> r.nodes,
                            created |-> acc.created + r.created,
                            touched |-> acc.touched + r.touched],
                           type, recs, idf, all_keys, i + 1)

\* The statement is rejected: an empty set_clause leaves "SET , n.created"
\* (a syntax error), and MERGE refuses a null value for the id property.
NodeStatementError(recs, idf) ==
    \/ AllKeys(recs) = {}
    \/ \E i \in DOMAIN recs : Get(recs[i], idf) = NULL

\* The call with a store that accepts the write: [raised, db, summary].
upsert_chunk_records_with_tx(store, type, recs, idf, omit) ==
    IF NodeStatementError(recs, idf)
    THEN [raised |-> TRUE, db |-> store, summary |-> <<>>]
    ELSE LET all_keys == AllKeys(recs)
             r == MergeNodeRows([nodes |-> store.nodes, created |-> 0, touched |-> 0],
                                type, recs, idf, all_keys, 1)
         IN  [raised  |-> FALSE,
              db      |-> [nodes |-> r.nodes, rels |-> store.rels],
              summary |-> Counters([nodes_created |-> r.created,
                                    properties_set |->
                                        r.touched * (Cardinality(all_keys) + 1),
                                    relationships_created |-> 0],
                                   omit)]

----------------------------------------------------------------------------
(* Relationship upsert: Loader.upsert_chunk_relationships_with_tx.         *)

\* The strings that are labels and handles, in Python's string order.
StrOrder == <<"derived_from", "of_participant", "participant", "sample", "study">>

StrRank(s) == CHOOSE i \in DOMAIN StrOrder : StrOrder[i] = s

\* itemgetter("src_label", "dst_label", "handle")
GroupKey(edge) == <<edge.src_label, edge.dst_label, edge.handle>>

\* Python's order of two such tuples: a < b.
KeyLess(a, b) ==
    \/ StrRank(a[1]) < StrRank(b[1])
    \/ a[1] = b[1] /\ StrRank(a[2]) < StrRank(b[2])
    \/ a[1] = b[1] /\ a[2] = b[2] /\ StrRank(a[3]) < StrRank(b[3])

\* sorted() is stable: an element goes after those that are not greater.
InsertSorted(sorted, edge) ==
    LET n == Cardinality({i \in DOMAIN sorted :
                            ~KeyLess(GroupKey(edge), GroupKey(sorted[i]))})
    IN  SubSeq(sorted, 1, n) \o <<edge>> \o SubSeq(sorted, n + 1, Len(sorted))

RECURSIVE SortEdges(_, _)
SortEdges(edges, i) ==
    IF i = 0 THEN <<>> ELSE InsertSorted(SortEdges(edges, i - 1), edges[i])

edges_sorted(edges) == SortEdges(edges, Len(edges))

\* A groupby that never joins two elements: each is a run of its own.
GroupBy_Singletons(edges, i, runs) ==
    [k \in 1..Len(edges) |-> [key |-> GroupKey(edges[k]), group |-> <<edges[k]>>]]

\* itertools.groupby: the runs of consecutive elements with equal keys.
RECURSIVE GroupBy(_, _, _)
GroupBy(edges, i, runs) ==
    IF i > Len(edges)
    THEN runs
    ELSE IF runs # <<>> /\ runs[Len(runs)].key = GroupKey(edges[i])
         THEN GroupBy(edges, i + 1,
                      [runs EXCEPT ![Len(runs)].group = Append(@, edges[i])])
         ELSE GroupBy(edges, i + 1,
                      Append(runs, [key |-> GroupKey(edges[i]), group |-> <<edges[i]>>]))

\* {key: list(group) ...}: a key seen again replaces the value and keeps
\* its first place in the dict's order.
RECURSIVE DictOf(_, _, _)
DictOf(runs, i, dict) ==
    IF i > Len(runs)
    THEN dict
    ELSE LET at == {j \in DOMAIN dict : dict[j].key = runs[i].key}
         IN  IF at = {}
             THEN DictOf(runs, i + 1, Append(dict, runs[i]))
             ELSE DictOf(runs, i + 1,
                         [dict EXCEPT ![CHOOSE j \in at : TRUE] = runs[i]])

\* grouped_edges, in the order grouped_edges.items() gives them.
grouped_edges(edges) ==
    DictOf(GroupBy(edges_sorted(edges), 1, <<>>), 1, <<>>)

\* A node's property, null when it has none of that name.
PropOf(node, k) == IF k \in Keys THEN node.props[k] ELSE NULL

\* MATCH (n:label {prop: value})
MatchNodes(nodes, label, prop, value) ==
    {i \in DOMAIN nodes : nodes[i].label = label /\ PropOf(nodes[i], prop) = value}

\* MERGE finds no relationship: it creates one.
CreateRel(rels, src, dst, handle) ==
    [rels    |-> rels @@ (FreshId(rels) :>
                    [src |-> src, dst |-> dst, handle |-> handle, updated |-> FALSE]),
     created |-> 1]

\* MERGE written as CREATE.
MergeRel_AlwaysCreate(rels, src, dst, handle) == CreateRel(rels, src, dst, handle)

\* MERGE (src)-[r:handle]->(dst) ON CREATE SET ... ON MATCH SET ...
MergeRel(rels, src, dst, handle) ==
    LET matched == {i \in DOMAIN rels :
                        rels[i].src = src /\ rels[i].dst = dst /\ rels[i].handle = handle}
    IN  IF matched = {}
        THEN CreateRel(rels, src, dst, handle)
        ELSE [rels    |-> [i \in DOMAIN rels |->
                             IF i \in matched
                             THEN [rels[i] EXCEPT !.updated = TRUE]
                             ELSE rels[i]],
              created |-> 0]

\* The rows the two MATCHes give for one edge, in the store's id order.
RECURSIVE MergePairs(_, _, _)
MergePairs(acc, pairs, handle) ==
    IF pairs = {}
    THEN acc
    ELSE LET p == CHOOSE q \in pairs :
                    \A o \in pairs : q[1] < o[1] \/ (q[1] = o[1] /\ q[2] <= o[2])
             r == MergeRel(acc.rels, p[1], p[2], handle)
         IN  MergePairs([rels    |-> r.rels,
                         created |-> acc.created + r.created,
                         merged  |-> acc.merged + 1],
                        pairs \ {p}, handle)

\* One row of UNWIND $edges of a statement written for (src_label, src_prop,
\* dst_label, dst_prop, handle).
MergeEdgeRow(acc, nodes, edge, src_label, src_prop, dst_label, dst_prop, handle) ==
    MergePairs(acc,
               MatchNodes(nodes, src_label, src_prop, edge.src_match)
                   \X MatchNodes(nodes, dst_label, dst_prop, edge.dst_match),
               handle)

RECURSIVE MergeEdgeRows(_, _, _, _, _, _, _, _, _)
MergeEdgeRows(acc, nodes, group, i, src_label, src_prop, dst_label, dst_prop, handle) ==
    IF i > Len(group)
    THEN acc
    ELSE MergeEdgeRows(
            MergeEdgeRow(acc, nodes, group[i], src_label, src_prop, dst_label,
                         dst_prop, handle),
            nodes, group, i + 1, src_label, src_prop, dst_label, dst_prop, handle)

\* The statement of one group, run in the transaction: [db, summary].
\* src_prop and dst_prop are those of the group's first descriptor.
RunGroup(store, key, group, omit) ==
    LET src_prop == group[1].src_prop
        dst_prop == group[1].dst_prop
        r == MergeEdgeRows([rels |-> store.rels, created |-> 0, merged |-> 0],
                           store.nodes, group, 1,
                           key[1], src_prop, key[2], dst_prop, key[3])
    IN  [db      |-> [nodes |-> store.nodes, rels |-> r.rels],
         summary |-> Counters([nodes_created |-> 0,
                               properties_set |-> r.merged,
                               relationships_created |-> r.created],
                              omit)]

\* return_summary = {key: 0 for key in summary_list[0].keys()}, then
\* return_summary[key] += value: a KeyError for a key the first lacks.
CombineRaises(list) ==
    \/ list = <<>>
    \/ \E i \in DOMAIN list : ~(DOMAIN list[i] \subseteq DOMAIN list[1])

RECURSIVE SumKey(_, _, _)
SumKey(list, k, i) ==
    IF i > Len(list) THEN 0 ELSE SummaryGet(list[i], k) + SumKey(list, k, i + 1)

Combine(list) == [k \in DOMAIN list[1] |-> SumKey(list, k, 1)]

\* What upsert_file_relationships returns when summary_list is empty.
ZeroSummary ==
    [k \in {"labels_added", "labels_removed", "nodes_created", "nodes_deleted",
             "properties_set", "relationships_created", "relationships_deleted"}
        |-> 0]

----------------------------------------------------------------------------
(* Row batches.  A column name is the sequence of its parts between the    *)
(* "."s (what str.split(".") gives): <<"guid">> is "guid" and              *)
(* <<"participant", "guid">> is "participant.guid".  A batch is its        *)
(* columns and its rows, a row being its cells in column order.            *)

\* "." in col
HasDot(col) == Len(col) > 1

TypeCol == <<"type">>

\* subgraph_col = None
NoCol == <<>>

NoChunk == [columns |-> <<>>, rows |-> <<>>]

\* A cell pandas holds as NaN rather than as a string.
NaN == "<NaN>"

ColIndex(batch, col) ==
    CHOOSE i \in DOMAIN batch.columns : batch.columns[i] = col

HasCol(batch, col) == \E i \in DOMAIN batch.columns : batch.columns[i] = col

Cell(batch, r, col) == batch.rows[r][ColIndex(batch, col)]

\* Loader.read_file_in_chunks: the batches of chunk_size rows, in row
\* order; a file with a header and no rows gives one batch without rows.
read_file_in_chunks(file, size) ==
    IF file.rows = <<>>
    THEN <<[columns |-> file.columns, rows |-> <<>>]>>
    ELSE [c \in 1..((Len(file.rows) + size - 1) \div size) |->
            [columns |-> file.columns,
             rows |-> SubSeq(file.rows, (c - 1) * size + 1,
                             IF c * size < Len(file.rows) THEN c * size
                             ELSE Len(file.rows))]]

\* chunk["type"].iloc[0] raises: no "type" column, or no row.
ChunkTypeRaises(batch) == ~HasCol(batch, TypeCol) \/ batch.rows = <<>>

ChunkType(batch) == Cell(batch, 1, TypeCol)

\* The columns kept whatever their name.
columns_to_keep_All(batch, tag_col) ==
    Pick(batch.columns, DOMAIN batch.columns, 1)

\* columns_to_keep of generate_chunk_records.
columns_to_keep(batch, tag_col) ==
    Pick(batch.columns,
         {i \in DOMAIN batch.columns :
            /\ batch.columns[i] # tag_col
            /\ batch.columns[i] # TypeCol
            /\ ~HasDot(batch.columns[i])},
         1)

\* The name of a column without "." as a property key.
KeyOf(col) == col[1]

\* pd.isna(v) gives "", anything else str(v).
CellText(v) == IF v = NaN THEN "" ELSE v

\* Loader.generate_chunk_records: [raised, chunk_type, records].
generate_chunk_records(batch, tag_col) ==
    IF ChunkTypeRaises(batch)
    THEN [raised |-> TRUE, chunk_type |-> NULL, records |-> <<>>]
    ELSE LET keep == columns_to_keep(batch, tag_col)
         IN  [raised     |-> FALSE,
              chunk_type |-> ChunkType(batch),
              records    |-> [r \in DOMAIN batch.rows |->
                                [k \in {KeyOf(keep[i]) : i \in DOMAIN keep} |->
                                    CellText(Cell(batch, r,
                                        CHOOSE c \in Range(keep) : KeyOf(c) = k))]]]

\* The Model Index's edges: (handle, src, dst), as get_all_edge_triplets
\* lists them.
ModelEdges == <<<<"of_participant", "sample", "participant">>,
                <<"derived_from", "sample", "sample">>>>

\* ModelParser.get_edge_handle raises KeyError: no edge from src to dst.
EdgeHandleRaises(edge_src, edge_dst) ==
    ~\E i \in DOMAIN ModelEdges :
        ModelEdges[i][2] = edge_src /\ ModelEdges[i][3] = edge_dst

\* ModelParser.get_edge_handle: the handle of the first such triplet.
get_edge_handle(edge_src, edge_dst) ==
    ModelEdges[Min({i \in DOMAIN ModelEdges :
                      ModelEdges[i][2] = edge_src /\ ModelEdges[i][3] = edge_dst})][1]

\* The descriptors of one edge column with a descriptor for every row.
RECURSIVE ColumnEdges_AllRows(_, _, _, _, _)
ColumnEdges_AllRows(batch, col, idf, handle, r) ==
    IF r > Len(batch.rows)
    THEN <<>>
    ELSE <<[src_label |-> Cell(batch, 1, <<"type">>),
            src_prop  |-> idf,
            src_match |-> Cell(batch, r, <<idf>>),
            dst_label |-> col[1],
            dst_prop  |-> col[2],
            dst_match |-> Cell(batch, r, col),
            handle    |-> handle]>>
         \o ColumnEdges_AllRows(batch, col, idf, handle, r + 1)

\* The descriptors of one edge column: one per row whose cell is not "".
RECURSIVE ColumnEdges(_, _, _, _, _)
ColumnEdges(batch, col, idf, handle, r) ==
    IF r > Len(batch.rows)
    THEN <<>>
    ELSE (IF Cell(batch, r, col) # ""
          THEN <<[src_label |-> ChunkType(batch),
                  src_prop  |-> idf,
                  src_match |-> Cell(batch, r, <<idf>>),
                  dst_label |-> col[1],
                  dst_prop  |-> col[2],
                  dst_match |-> Cell(batch, r, col),
                  handle    |-> handle]>>
          ELSE <<>>)
         \o ColumnEdges(batch, col, idf, handle, r + 1)

edge_columns(batch) ==
    Pick(batch.columns, {i \in DOMAIN batch.columns : HasDot(batch.columns[i])}, 1)

\* generate_chunk_relationships looking an edge column's handle up only
\* when the column has a cell to describe.
ChunkRelationshipsRaises_FilledOnly(batch, idf) ==
    \/ ChunkTypeRaises(batch)
    \/ \E i \in DOMAIN edge_columns(batch) :
          /\ \E r \in DOMAIN batch.rows : Cell(batch, r, edge_columns(batch)[i]) # ""
          /\ \/ EdgeHandleRaises(ChunkType(batch), edge_columns(batch)[i][1])
             \/ ~HasCol(batch, <<idf>>)

\* generate_chunk_relationships raises: no type, no edge declared for an
\* edge column, or no id_field column to take src_match from.
ChunkRelationshipsRaises(batch, idf) ==
    \/ ChunkTypeRaises(batch)
    \/ \E i \in DOMAIN edge_columns(batch) :
          \/ EdgeHandleRaises(ChunkType(batch), edge_columns(batch)[i][1])
          \/ ~HasCol(batch, <<idf>>)

RECURSIVE EdgesToAdd(_, _, _, _)
EdgesToAdd(batch, cols, idf, i) ==
    IF i > Len(cols)
    THEN <<>>
    ELSE ColumnEdges(batch, cols[i], idf,
                     get_edge_handle(ChunkType(batch), cols[i][1]), 1)
         \o EdgesToAdd(batch, cols, idf, i + 1)

\* Loader.generate_chunk_relationships: [raised, edges].
generate_chunk_relationships(batch, idf) ==
    IF ChunkRelationshipsRaises(batch, idf)
    THEN [raised |-> TRUE, edges |-> <<>>]
    ELSE [raised |-> FALSE, edges |-> EdgesToAdd(batch, edge_columns(batch), idf, 1)]

----------------------------------------------------------------------------
(* Comparing stores.                                                       *)

\* The store without its created/updated timestamps.
Strip(store) ==
    [nodes |-> [i \in DOMAIN store.nodes |->
                    [label |-> store.nodes[i].label, props |-> store.nodes[i].props]],
     rels  |-> [i \in DOMAIN store.rels |->
                    [src |-> store.rels[i].src, dst |-> store.rels[i].dst,
                     handle |-> store.rels[i].handle]]]

\* One entity per (type, identifier).
UniqueEntities(store) ==
    \A i, j \in DOMAIN store.nodes :
        (/\ store.nodes[i].label = store.nodes[j].label
         /\ store.nodes[i].props[id_field] = store.nodes[j].props[id_field])
        => i = j

\* One relationship per (source entity, destination entity, handle).
UniqueRelationships(store) ==
    \A i, j \in DOMAIN store.rels :
        (/\ store.rels[i].src = store.rels[j].src
         /\ store.rels[i].dst = store.rels[j].dst
         /\ store.rels[i].handle = store.rels[j].handle)
        => i = j

----------------------------------------------------------------------------
(* Inputs.                                                                 *)

\* Entity Records: maps from some of the keys to cell values.
EntityRecords ==
    UNION {[D -> {"x", "y"}] : D \in SUBSET Keys}

SeqsUpTo(S, n) == UNION {[1..k -> S] : k \in 0..n}

NodeRecs(labels, vals) ==
    [label : labels,
     props : {p \in [Keys -> vals \cup {NULL}] : p[id_field] # NULL},
     updated : {FALSE}]

\* Stores of at most n nodes with one entity per (type, identifier).
NodeStores(labels, vals, n) ==
    {[nodes |-> t, rels |-> EmptyTable] :
        t \in {u \in SeqsUpTo(NodeRecs(labels, vals), n) :
                 \A i, j \in DOMAIN u :
                    (u[i].label = u[j].label
                        /\ u[i].props[id_field] = u[j].props[id_field]) => i = j}}

----------------------------------------------------------------------------
(* SpecNode: upsert_chunk_records_with_tx applied repeatedly to one store. *)

InitNode ==
    /\ db \in NodeStores({"participant"}, {"x", "y"}, MaxStoreNodes)
    /\ pc = "call"
    /\ omit_zero \in BOOLEAN
    /\ node_type = "participant"
    /\ records \in SeqsUpTo(EntityRecords, MaxRecords)
    /\ hist = <<>>
    /\ tx = NoTx
    /\ edge_list = <<>>
    /\ summary_list = <<>>
    /\ ret = NoRet
    /\ err = NoErr
    /\ chunk = NoChunk
    /\ subgraph_col = NoCol
    /\ failures = 0
    /\ file_list = <<>>
    /\ chunk_size = 1
    /\ run = 1
    /\ fi = 1
    /\ ci = 1
    /\ retry_count = 0
    /\ file_summary_list = <<>>
    /\ db0 = db
    /\ node_commits = 0
    /\ rel_txs = 0
    /\ passes = <<>>
    /\ NoWipe

\* The call returns: the transaction commits when the with block is left.
NodeUpsertOk ==
    /\ pc = "call"
    /\ Len(hist) < MaxApply
    /\ LET r == upsert_chunk_records_with_tx(db, node_type, records, id_field, omit_zero)
       IN  /\ ~r.raised
           /\ db' = r.db
           /\ hist' = Append(hist, [state |-> "returned", summary |-> r.summary,
                                    before |-> db, after |-> r.db])
    /\ UNCHANGED <<wipeVars, pc, omit_zero, nodeVars, relVars, extVars, failures, loadVars>>

\* The statement fails (rejected, or a write error): rollback, raise.
NodeUpsertRaise ==
    /\ pc = "call"
    /\ Len(hist) < MaxApply
    /\ hist' = Append(hist, [state |-> "raised", summary |-> NoRet,
                             before |-> db, after |-> db])
    /\ UNCHANGED <<wipeVars, db, pc, omit_zero, nodeVars, relVars, extVars, failures, loadVars>>

NextNode == NodeUpsertOk \/ NodeUpsertRaise

SpecNode == InitNode /\ [][NextNode]_vars

----------------------------------------------------------------------------
(* The steps of upsert_chunk_relationships_with_tx.  The caller sets pc to *)
(* "rel_begin"; the call ends at "rel_returned" or "rel_raised".           *)

\* with tx.begin_transaction() as ts
RelBegin ==
    /\ pc = "rel_begin"
    /\ tx' = <<db>>
    /\ summary_list' = <<>>
    /\ pc' = "rel_group"
    /\ rel_txs' = rel_txs + 1
    /\ UNCHANGED <<wipeVars, db, omit_zero, nodeVars, extVars, hist, edge_list, ret, err,
                   failures, file_list, chunk_size, run, fi, ci, retry_count,
                   file_summary_list, db0, node_commits, passes>>

\* ts.run of the next group succeeds.
RelGroupOk ==
    /\ pc = "rel_group"
    /\ Len(summary_list) < Len(grouped_edges(edge_list))
    /\ LET g == grouped_edges(edge_list)[Len(summary_list) + 1]
           r == RunGroup(tx[1], g.key, g.group, omit_zero)
       IN  /\ tx' = <<r.db>>
           /\ summary_list' = Append(summary_list, r.summary)
    /\ UNCHANGED <<wipeVars, db, pc, omit_zero, nodeVars, extVars, hist, edge_list, ret, err,
                   failures, loadVars>>

\* A failed group whose transaction is left open.
RelGroupFail_LeaveOpen ==
    /\ pc = "rel_group"
    /\ Len(summary_list) < Len(grouped_edges(edge_list))
    /\ failures < MaxFailures
    /\ failures' = failures + 1
    /\ err' = [kind |-> "write", call |-> Len(hist)]
    /\ pc' = "rel_raised"
    /\ UNCHANGED <<wipeVars, db, tx, omit_zero, nodeVars, extVars, hist, edge_list,
                   summary_list, ret, loadVars>>

\* A failed group that leaves the earlier groups' writes committed.
RelGroupFail_KeepEarlier ==
    /\ pc = "rel_group"
    /\ Len(summary_list) < Len(grouped_edges(edge_list))
    /\ failures < MaxFailures
    /\ failures' = failures + 1
    /\ db' = tx[1]
    /\ tx' = NoTx
    /\ err' = [kind |-> "write", call |-> Len(hist)]
    /\ pc' = "rel_raised"
    /\ UNCHANGED <<wipeVars, omit_zero, nodeVars, extVars, hist, edge_list, summary_list,
                   ret, loadVars>>

\* ts.run of the next group fails: ts.rollback(), raise e.
RelGroupFail ==
    /\ pc = "rel_group"
    /\ Len(summary_list) < Len(grouped_edges(edge_list))
    /\ failures < MaxFailures
    /\ failures' = failures + 1
    /\ tx' = NoTx
    /\ err' = [kind |-> "write", call |-> Len(hist)]
    /\ pc' = "rel_raised"
    /\ UNCHANGED <<wipeVars, db, omit_zero, nodeVars, extVars, hist, edge_list, summary_list,
                   ret, loadVars>>

\* The with block is left after the last group: the transaction commits,
\* and the groups' summaries are combined.
RelCommit ==
    /\ pc = "rel_group"
    /\ Len(summary_list) = Len(grouped_edges(edge_list))
    /\ db' = tx[1]
    /\ tx' = NoTx
    /\ IF CombineRaises(summary_list)
       THEN /\ err' = [kind |-> IF summary_list = <<>> THEN "IndexError" ELSE "KeyError",
                       call |-> Len(hist)]
            /\ pc' = "rel_raised"
            /\ ret' = ret
       ELSE /\ ret' = Combine(summary_list)
            /\ pc' = "rel_returned"
            /\ err' = err
    /\ UNCHANGED <<wipeVars, omit_zero, nodeVars, extVars, hist, edge_list, summary_list,
                   failures, loadVars>>

\* The commit fails: nothing of the transaction is kept.
RelCommitFail ==
    /\ pc = "rel_group"
    /\ Len(summary_list) = Len(grouped_edges(edge_list))
    /\ failures < MaxFailures
    /\ failures' = failures + 1
    /\ tx' = NoTx
    /\ err' = [kind |-> "write", call |-> Len(hist)]
    /\ pc' = "rel_raised"
    /\ UNCHANGED <<wipeVars, db, omit_zero, nodeVars, extVars, hist, edge_list, summary_list,
                   ret, loadVars>>

RelSteps == RelBegin \/ RelGroupOk \/ RelGroupFail \/ RelCommit \/ RelCommitFail

----------------------------------------------------------------------------
(* SpecRel: upsert_chunk_relationships_with_tx applied repeatedly.         *)

\* The nodes a modelled store may hold.
CandidateNodes ==
    <<[label |-> "participant", props |-> [guid |-> "x", name |-> "y"], updated |-> FALSE],
      [label |-> "participant", props |-> [guid |-> "y", name |-> "y"], updated |-> FALSE],
      [label |-> "sample", props |-> [guid |-> "x", name |-> NULL], updated |-> FALSE],
      [label |-> "sample", props |-> [guid |-> "y", name |-> "x"], updated |-> FALSE]>>

\* A relationship the store may hold before the call: from the first
\* sample to the first participant.
FirstRel(nodes) ==
    LET ss == {i \in DOMAIN nodes : nodes[i].label = "sample"}
        ps == {i \in DOMAIN nodes : nodes[i].label = "participant"}
    IN  IF ss = {} \/ ps = {}
        THEN EmptyTable
        ELSE 1 :> [src |-> Min(ss), dst |-> Min(ps), handle |-> "of_participant",
                   updated |-> FALSE]

RelStores ==
    UNION {{[nodes |-> Pick(CandidateNodes, S, 1), rels |-> EmptyTable],
            [nodes |-> Pick(CandidateNodes, S, 1),
             rels |-> FirstRel(Pick(CandidateNodes, S, 1))]} :
           S \in SUBSET DOMAIN CandidateNodes}

\* Edge Descriptors of sample rows.
EdgeDescriptors ==
    {[src_label |-> "sample", src_prop |-> id_field, src_match |-> sm,
      dst_label |-> d[1], dst_prop |-> d[2], dst_match |-> d[3], handle |-> d[4]] :
        sm \in {"x", "y"},
        d \in {<<"participant", "guid", "x", "of_participant">>,
               <<"participant", "name", "y", "of_participant">>,
               <<"sample", "guid", "y", "derived_from">>}}

InitRel ==
    /\ db \in RelStores
    /\ pc = "call"
    /\ omit_zero \in BOOLEAN
    /\ node_type = "sample"
    /\ records = <<>>
    /\ hist = <<>>
    /\ tx = NoTx
    /\ edge_list \in SeqsUpTo(EdgeDescriptors, MaxEdges)
    /\ summary_list = <<>>
    /\ ret = NoRet
    /\ err = NoErr
    /\ chunk = NoChunk
    /\ subgraph_col = NoCol
    /\ failures = 0
    /\ file_list = <<>>
    /\ chunk_size = 1
    /\ run = 1
    /\ fi = 1
    /\ ci = 1
    /\ retry_count = 0
    /\ file_summary_list = <<>>
    /\ db0 = db
    /\ node_commits = 0
    /\ rel_txs = 0
    /\ passes = <<>>
    /\ NoWipe

RelCall ==
    /\ pc = "call"
    /\ Len(hist) < MaxApply
    /\ hist' = Append(hist, [state |-> "running", summary |-> NoRet,
                             before |-> db, after |-> db])
    /\ pc' = "rel_begin"
    /\ ret' = NoRet
    /\ err' = NoErr
    /\ UNCHANGED <<wipeVars, db, omit_zero, nodeVars, extVars, tx, edge_list, summary_list,
                   failures, loadVars>>

RelDone ==
    /\ pc \in {"rel_returned", "rel_raised"}
    /\ hist' = [hist EXCEPT ![Len(hist)] =
                    [state |-> IF pc = "rel_returned" THEN "returned" ELSE "raised",
                     summary |-> ret, before |-> @.before, after |-> db]]
    /\ pc' = "call"
    /\ UNCHANGED <<wipeVars, db, omit_zero, nodeVars, extVars, tx, edge_list, summary_list,
                   ret, err, failures, loadVars>>

NextRel == RelCall \/ RelSteps \/ RelDone

SpecRel == InitRel /\ [][NextRel]_vars

----------------------------------------------------------------------------
(* SpecExtract: the extractors applied to a row batch.                     *)

\* The columns a modelled batch may have, in header order.
ColumnUniverse ==
    <<TypeCol, <<"guid">>, <<"study_id">>, <<"participant", "guid">>>>

CellValues == {"", "x", NaN}

\* The rows of a batch with the given columns: the type cell is "sample".
RowsOver(columns) ==
    {row \in [DOMAIN columns -> CellValues \cup {"sample"}] :
        \A i \in DOMAIN columns :
            (row[i] = "sample") <=> (columns[i] = TypeCol)}

Batches ==
    UNION {[columns : {Pick(ColumnUniverse, S, 1)},
            rows : SeqsUpTo(RowsOver(Pick(ColumnUniverse, S, 1)), MaxRows)] :
           S \in SUBSET DOMAIN ColumnUniverse}

InitExtract ==
    /\ db = EmptyDb
    /\ pc = "call"
    /\ omit_zero = FALSE
    /\ node_type = NULL
    /\ records = <<>>
    /\ hist = <<>>
    /\ tx = NoTx
    /\ edge_list = <<>>
    /\ summary_list = <<>>
    /\ ret = NoRet
    /\ err = NoErr
    /\ chunk \in Batches
    /\ subgraph_col \in {NoCol, <<"study_id">>}
    /\ failures = 0
    /\ file_list = <<>>
    /\ chunk_size = 1
    /\ run = 1
    /\ fi = 1
    /\ ci = 1
    /\ retry_count = 0
    /\ file_summary_list = <<>>
    /\ db0 = db
    /\ node_commits = 0
    /\ rel_txs = 0
    /\ passes = <<>>
    /\ NoWipe

\* chunk_type, records = generate_chunk_records(chunk, subgraph_col)
ExtractRecords ==
    /\ pc = "call"
    /\ LET r == generate_chunk_records(chunk, subgraph_col)
       IN  IF r.raised
           THEN /\ pc' = "records_raised"
                /\ UNCHANGED <<node_type, records>>
           ELSE /\ pc' = "records_returned"
                /\ node_type' = r.chunk_type
                /\ records' = r.records
    /\ UNCHANGED <<wipeVars, db, omit_zero, hist, relVars, extVars, failures, loadVars>>

NextExtract == ExtractRecords

SpecExtract == InitExtract /\ [][NextExtract]_vars

----------------------------------------------------------------------------
(* SpecEdges: generate_chunk_relationships applied to a row batch.         *)

\* The headers of the modelled batches; a relationship column is named
\* <parent type>.<parent property>.
EdgeHeaders ==
    {<<TypeCol, <<"guid">>, <<"participant", "guid">>>>,
     <<TypeCol, <<"guid">>, <<"participant", "guid">>, <<"participant", "name">>>>,
     <<TypeCol, <<"guid">>, <<"participant", "guid">>, <<"sample", "guid">>>>,
     <<TypeCol, <<"guid">>, <<"study", "guid">>>>,
     <<TypeCol, <<"guid">>>>,
     <<TypeCol, <<"participant", "guid">>>>,
     <<<<"guid">>, <<"participant", "guid">>>>}

\* The cells of the modelled batches: every cell is a string.
EdgeCellValues == {"", "x", "y"}

\* The rows of a batch of samples with the given columns.
EdgeRowsOver(columns) ==
    {row \in [DOMAIN columns -> EdgeCellValues \cup {"sample"}] :
        \A i \in DOMAIN columns :
            (row[i] = "sample") <=> (columns[i] = TypeCol)}

EdgeBatches ==
    UNION {[columns : {h}, rows : SeqsUpTo(EdgeRowsOver(h), MaxRows)] :
           h \in EdgeHeaders}

InitEdges ==
    /\ db = EmptyDb
    /\ pc = "call"
    /\ omit_zero = FALSE
    /\ node_type = NULL
    /\ records = <<>>
    /\ hist = <<>>
    /\ tx = NoTx
    /\ edge_list = <<>>
    /\ summary_list = <<>>
    /\ ret = NoRet
    /\ err = NoErr
    /\ chunk \in EdgeBatches
    /\ subgraph_col = NoCol
    /\ failures = 0
    /\ file_list = <<>>
    /\ chunk_size = 1
    /\ run = 1
    /\ fi = 1
    /\ ci = 1
    /\ retry_count = 0
    /\ file_summary_list = <<>>
    /\ db0 = db
    /\ node_commits = 0
    /\ rel_txs = 0
    /\ passes = <<>>
    /\ NoWipe

\* chunk_relationships = generate_chunk_relationships(chunk, model_parser,
\* id_field)
ExtractRelationships ==
    /\ pc = "call"
    /\ LET r == generate_chunk_relationships(chunk, id_field)
       IN  IF r.raised
           THEN /\ pc' = "edges_raised"
                /\ err' = [kind |-> "lookup", call |-> 0]
                /\ UNCHANGED edge_list
           ELSE /\ pc' = "edges_returned"
                /\ edge_list' = r.edges
                /\ UNCHANGED err
    /\ UNCHANGED <<wipeVars, db, omit_zero, nodeVars, hist, tx, summary_list, ret,
                   extVars, failures, loadVars>>

NextEdges == ExtractRelationships

SpecEdges == InitEdges /\ [][NextEdges]_vars

----------------------------------------------------------------------------
(* SpecLoad: the upsert_files workflow over a list of files: the node pass *)
(* of every file (Loader.upsert_file_records), then the relationship pass  *)
(* of every file (Loader.upsert_file_relationships).  A run that raised or *)
(* was aborted may be followed by another run over the same files.         *)

\* max_retries of upsert_file_relationships.
max_retries == 3

\* if retry_count >= max_retries, checked one failure late.
RetryExhausted_OneLate(count) == count > max_retries

\* if retry_count >= max_retries: raise e
RetryExhausted(count) == count >= max_retries

\* The batches of the file the loop is at, the last one first.
Chunks_Reversed ==
    [c \in DOMAIN read_file_in_chunks(file_list[fi], chunk_size) |->
        read_file_in_chunks(file_list[fi], chunk_size)
            [Len(read_file_in_chunks(file_list[fi], chunk_size)) - c + 1]]

\* The batches of the file the loop is at.
Chunks == read_file_in_chunks(file_list[fi], chunk_size)

\* Where upsert_files goes when a file's relationship pass has returned.
AfterRelPass(f, n) ==
    IF f < n THEN [pc |-> "rels", fi |-> f + 1] ELSE [pc |-> "flow_done", fi |-> f]

\* A workflow that loads each file's relationships right after its nodes.
AfterNodePass_FileByFile(f, n) == [pc |-> "rels", fi |-> f]

\* Where upsert_files goes when a file's node pass has returned.
AfterNodePass(f, n) ==
    IF f < n THEN [pc |-> "nodes", fi |-> f + 1] ELSE [pc |-> "rels", fi |-> 1]

Running ==
    pc \in {"nodes", "node_chunk", "rels", "rel_chunk", "rel_try", "rel_begin",
            "rel_group", "rel_returned", "rel_raised"}

ParticipantFile ==
    [columns |-> <<TypeCol, <<"guid">>, <<"name">>>>,
     rows |-> <<<<"participant", "x", "y">>, <<"participant", "y", "y">>>>]

\* Samples with a participant and a parent sample.
SampleFile ==
    [columns |-> <<TypeCol, <<"guid">>, <<"participant", "guid">>, <<"sample", "guid">>>>,
     rows |-> <<<<"sample", "x", "x", "">>, <<"sample", "y", "y", "x">>>>]

\* Samples that name their participant by guid or by name.
SampleFileByName ==
    [columns |-> <<TypeCol, <<"guid">>, <<"participant", "guid">>,
                   <<"participant", "name">>>>,
     rows |-> <<<<"sample", "x", "x", "">>, <<"sample", "y", "", "y">>>>]

\* A file without relationship columns whose rows repeat an identifier.
RepeatFile ==
    [columns |-> <<TypeCol, <<"guid">>, <<"name">>>>,
     rows |-> <<<<"participant", "x", "x">>, <<"participant", "x", "">>>>]

\* A file of three rows, the last of which repeats the first's identifier.
LongFile ==
    [columns |-> <<TypeCol, <<"guid">>, <<"name">>>>,
     rows |-> <<<<"participant", "x", "x">>, <<"participant", "y", "">>,
                <<"participant", "x", "y">>>>]

\* A file of samples with a column for a parent type, study, that the
\* model declares no edge to from sample.
OrphanFile ==
    [columns |-> <<TypeCol, <<"guid">>, <<"participant", "guid">>, <<"study", "guid">>>>,
     rows |-> <<<<"sample", "x", "x", "">>, <<"sample", "y", "", "x">>>>]

\* Samples none of which names a participant.
UnlinkedFile ==
    [columns |-> <<TypeCol, <<"guid">>, <<"participant", "guid">>>>,
     rows |-> <<<<"sample", "x", "">>, <<"sample", "y", "">>>>]

\* Samples the first of which names no participant.
HalfLinkedFile ==
    [columns |-> <<TypeCol, <<"guid">>, <<"participant", "guid">>>>,
     rows |-> <<<<"sample", "x", "">>, <<"sample", "y", "x">>>>]

\* A file with a header and no rows.
HeaderOnlyFile ==
    [columns |-> <<TypeCol, <<"guid">>>>, rows |-> <<>>]

FileLists ==
    {<<ParticipantFile, SampleFile>>,
     <<HeaderOnlyFile>>,
     <<SampleFile, ParticipantFile>>,
     <<ParticipantFile, SampleFileByName>>,
     <<SampleFile>>,
     <<RepeatFile>>,
     <<LongFile>>,
     <<ParticipantFile, OrphanFile>>,
     <<UnlinkedFile>>,
     <<ParticipantFile, HalfLinkedFile>>}

\* The stores a run may start from: empty, or holding a participant and a
\* sample loaded earlier.
LoadStores ==
    {EmptyDb,
     [nodes |-> <<[label |-> "participant", props |-> [guid |-> "x", name |-> "x"],
                   updated |-> FALSE],
                  [label |-> "sample", props |-> [guid |-> "x", name |-> NULL],
                   updated |-> FALSE]>>,
      rels |-> EmptyTable]}

InitLoad ==
    /\ db \in LoadStores
    /\ pc = "nodes"
    /\ omit_zero \in BOOLEAN
    /\ node_type = NULL
    /\ records = <<>>
    /\ hist = <<>>
    /\ tx = NoTx
    /\ edge_list = <<>>
    /\ summary_list = <<>>
    /\ ret = NoRet
    /\ err = NoErr
    /\ chunk = NoChunk
    /\ subgraph_col = NoCol
    /\ failures = 0
    /\ file_list \in FileLists
    /\ chunk_size \in 1..MaxChunkSize
    /\ run = 1
    /\ fi = 1
    /\ ci = 1
    /\ retry_count = 0
    /\ file_summary_list = <<>>
    /\ db0 = db
    /\ node_commits = 0
    /\ rel_txs = 0
    /\ passes = <<>>
    /\ NoWipe

\* passes with the write of batch ci added to the running pass.
WriteRun(ok) ==
    [passes EXCEPT ![Len(passes)].writes = Append(@, [chunk |-> ci, ok |-> ok])]

\* The file pass raises: the error leaves upsert_files.
Raise(kind) ==
    /\ pc' = "flow_raised"
    /\ err' = [kind |-> kind, call |-> 0]

\* upsert_file_records is called for file fi.
NodePassStart ==
    /\ pc = "nodes"
    /\ ci' = 1
    /\ file_summary_list' = <<>>
    /\ pc' = "node_chunk"
    /\ passes' = Append(passes, [kind |-> "nodes", file |-> fi, db |-> db,
                                 writes |-> <<>>])
    /\ UNCHANGED <<wipeVars, db, omit_zero, nodeVars, hist, relVars, extVars, failures,
                   file_list, chunk_size, run, fi, retry_count, db0,
                   node_commits, rel_txs>>

\* The next batch is read, its records are extracted and written, and the
\* transaction commits; the batch's counts are then printed.
NodeChunkOk ==
    /\ pc = "node_chunk"
    /\ ci <= Len(Chunks)
    /\ LET g == generate_chunk_records(Chunks[ci], subgraph_col)
           r == upsert_chunk_records_with_tx(db, g.chunk_type, g.records, id_field,
                                             omit_zero)
       IN  /\ ~g.raised
           /\ ~r.raised
           /\ db' = r.db
           /\ node_commits' = node_commits + 1
           /\ node_type' = g.chunk_type
           /\ records' = g.records
           /\ IF {"nodes_created", "properties_set"} \subseteq DOMAIN r.summary
              THEN /\ file_summary_list' = Append(file_summary_list, r.summary)
                   /\ ci' = ci + 1
                   /\ UNCHANGED <<pc, err>>
              ELSE /\ Raise("KeyError")
                   /\ UNCHANGED <<file_summary_list, ci>>
    /\ passes' = WriteRun(TRUE)
    /\ UNCHANGED <<wipeVars, omit_zero, hist, tx, edge_list, summary_list, ret, extVars,
                   failures, file_list, chunk_size, run, fi, retry_count, db0,
                   rel_txs>>

\* The batch cannot be extracted, or its statement is rejected.
NodeChunkRaise ==
    /\ pc = "node_chunk"
    /\ ci <= Len(Chunks)
    /\ LET g == generate_chunk_records(Chunks[ci], subgraph_col)
       IN  \/ g.raised
           \/ upsert_chunk_records_with_tx(db, g.chunk_type, g.records, id_field,
                                           omit_zero).raised
    /\ Raise("statement")
    /\ passes' = IF generate_chunk_records(Chunks[ci], subgraph_col).raised
                 THEN passes
                 ELSE WriteRun(FALSE)
    /\ UNCHANGED <<wipeVars, db, omit_zero, nodeVars, hist, tx, edge_list, summary_list, ret,
                   extVars, failures, loadFrame>>

\* A failed write that is skipped: the pass goes on with the next batch.
NodeChunkFail_Skip ==
    /\ pc = "node_chunk"
    /\ ci <= Len(Chunks)
    /\ ~generate_chunk_records(Chunks[ci], subgraph_col).raised
    /\ failures < MaxFailures
    /\ failures' = failures + 1
    /\ passes' = WriteRun(FALSE)
    /\ ci' = ci + 1
    /\ UNCHANGED <<wipeVars, db, pc, err, omit_zero, nodeVars, hist, tx, edge_list,
                   summary_list, ret, extVars, file_list, chunk_size, run, fi,
                   retry_count, file_summary_list, db0, node_commits, rel_txs>>

\* A failed write that also undoes the batches committed before it.
NodeChunkFail_UndoPass ==
    /\ pc = "node_chunk"
    /\ ci <= Len(Chunks)
    /\ ~generate_chunk_records(Chunks[ci], subgraph_col).raised
    /\ failures < MaxFailures
    /\ failures' = failures + 1
    /\ Raise("write")
    /\ db' = passes[Len(passes)].db
    /\ passes' = WriteRun(FALSE)
    /\ UNCHANGED <<wipeVars, omit_zero, nodeVars, hist, tx, edge_list, summary_list, ret,
                   extVars, loadFrame>>

\* The write of the batch fails: ts.rollback(), raise e.
NodeChunkFail ==
    /\ pc = "node_chunk"
    /\ ci <= Len(Chunks)
    /\ ~generate_chunk_records(Chunks[ci], subgraph_col).raised
    /\ failures < MaxFailures
    /\ failures' = failures + 1
    /\ Raise("write")
    /\ passes' = WriteRun(FALSE)
    /\ UNCHANGED <<wipeVars, db, omit_zero, nodeVars, hist, tx, edge_list, summary_list, ret,
                   extVars, loadFrame>>

\* No batch is left: the summaries are combined and the pass returns.
NodePassEnd ==
    /\ pc = "node_chunk"
    /\ ci > Len(Chunks)
    /\ IF CombineRaises(file_summary_list)
       THEN /\ Raise("KeyError")
            /\ fi' = fi
            /\ ret' = ret
       ELSE /\ pc' = AfterNodePass(fi, Len(file_list)).pc
            /\ fi' = AfterNodePass(fi, Len(file_list)).fi
            /\ err' = err
            /\ ret' = Combine(file_summary_list)
    /\ UNCHANGED <<wipeVars, db, omit_zero, nodeVars, hist, tx, edge_list, summary_list,
                   extVars, failures, file_list, chunk_size, run, ci, retry_count,
                   file_summary_list, db0, node_commits, rel_txs, passes>>

\* upsert_file_relationships is called for file fi.
RelPassStart ==
    /\ pc = "rels"
    /\ ci' = 1
    /\ file_summary_list' = <<>>
    /\ hist' = <<>>
    /\ pc' = "rel_chunk"
    /\ passes' = Append(passes, [kind |-> "rels", file |-> fi, db |-> db,
                                 writes |-> <<>>])
    /\ UNCHANGED <<wipeVars, db, omit_zero, nodeVars, relVars, extVars, failures,
                   file_list, chunk_size, run, fi, retry_count, db0,
                   node_commits, rel_txs>>

\* The next batch is read and the retry loop is entered whether or not the
\* batch has a descriptor.
RelChunkNext_TryEmpty ==
    /\ pc = "rel_chunk"
    /\ ci <= Len(Chunks)
    /\ LET g == generate_chunk_relationships(Chunks[ci], id_field)
       IN  IF g.raised
           THEN /\ Raise("lookup")
                /\ UNCHANGED <<edge_list, retry_count, hist, ci>>
           ELSE /\ edge_list' = g.edges
                /\ retry_count' = 0
                /\ hist' = <<>>
                /\ pc' = "rel_try"
                /\ UNCHANGED <<err, ci>>
    /\ UNCHANGED <<wipeVars, db, omit_zero, nodeVars, tx, summary_list, ret, extVars, failures,
                   file_list, chunk_size, run, fi, file_summary_list, db0,
                   node_commits, rel_txs, passes>>

\* The next batch is read and its descriptors are extracted: with none the
\* batch is skipped, otherwise the retry loop is entered.
RelChunkNext ==
    /\ pc = "rel_chunk"
    /\ ci <= Len(Chunks)
    /\ LET g == generate_chunk_relationships(Chunks[ci], id_field)
       IN  IF g.raised
           THEN /\ Raise("lookup")
                /\ UNCHANGED <<edge_list, retry_count, hist, ci>>
           ELSE IF Len(g.edges) > 0
                THEN /\ edge_list' = g.edges
                     /\ retry_count' = 0
                     /\ hist' = <<>>
                     /\ pc' = "rel_try"
                     /\ UNCHANGED <<err, ci>>
                ELSE /\ ci' = ci + 1
                     /\ UNCHANGED <<edge_list, retry_count, hist, pc, err>>
    /\ UNCHANGED <<wipeVars, db, omit_zero, nodeVars, tx, summary_list, ret, extVars, failures,
                   file_list, chunk_size, run, fi, file_summary_list, db0,
                   node_commits, rel_txs, passes>>

\* while retry_count < max_retries: upsert_chunk_relationships_with_tx is
\* called with chunk_relationships.
RelTry ==
    /\ pc = "rel_try"
    /\ retry_count < max_retries
    /\ hist' = Append(hist, [state |-> "running", summary |-> NoRet,
                             before |-> db, after |-> db,
                             edges |-> edge_list, err |-> NoErr,
                             file |-> fi, chunk |-> ci])
    /\ pc' = "rel_begin"
    /\ UNCHANGED <<wipeVars, db, omit_zero, nodeVars, relVars, extVars, failures, loadVars>>

\* The call returned: its summary is kept and the loop is left.
RelAttemptOk ==
    /\ pc = "rel_returned"
    /\ hist' = [hist EXCEPT ![Len(hist)].state = "returned",
                            ![Len(hist)].summary = ret,
                            ![Len(hist)].after = db]
    /\ file_summary_list' = Append(file_summary_list, ret)
    /\ ci' = ci + 1
    /\ pc' = "rel_chunk"
    /\ UNCHANGED <<wipeVars, db, omit_zero, nodeVars, relVars, extVars, failures, file_list,
                   chunk_size, run, fi, retry_count, db0, node_commits, rel_txs, passes>>

\* The call raised: retry_count += 1, and the error is raised again when
\* retry_count has reached max_retries.
RelAttemptFailed ==
    /\ pc = "rel_raised"
    /\ hist' = [hist EXCEPT ![Len(hist)].state = "raised",
                            ![Len(hist)].err = err,
                            ![Len(hist)].after = db]
    /\ retry_count' = retry_count + 1
    /\ pc' = IF RetryExhausted(retry_count + 1) THEN "flow_raised" ELSE "rel_try"
    /\ UNCHANGED <<wipeVars, db, omit_zero, nodeVars, relVars, extVars, failures, file_list,
                   chunk_size, run, fi, ci, file_summary_list, db0, node_commits,
                   rel_txs, passes>>

\* No batch is left: the pass returns the combined summary, or the seven
\* zero counters when no batch had a relationship.
RelPassEnd ==
    /\ pc = "rel_chunk"
    /\ ci > Len(Chunks)
    /\ IF file_summary_list # <<>> /\ CombineRaises(file_summary_list)
       THEN /\ Raise("KeyError")
            /\ fi' = fi
            /\ ret' = ret
       ELSE /\ pc' = AfterRelPass(fi, Len(file_list)).pc
            /\ fi' = AfterRelPass(fi, Len(file_list)).fi
            /\ err' = err
            /\ ret' = IF file_summary_list = <<>>
                      THEN ZeroSummary
                      ELSE Combine(file_summary_list)
    /\ UNCHANGED <<wipeVars, db, omit_zero, nodeVars, hist, tx, edge_list, summary_list,
                   extVars, failures, file_list, chunk_size, run, ci, retry_count,
                   file_summary_list, db0, node_commits, rel_txs, passes>>

\* The caller aborts the run: the call in flight ends and the open
\* transaction, if any, is not committed.
FlowAbort ==
    /\ Running
    /\ failures < MaxFailures
    /\ failures' = failures + 1
    /\ tx' = NoTx
    /\ pc' = "flow_aborted"
    /\ UNCHANGED <<wipeVars, db, omit_zero, nodeVars, hist, edge_list, summary_list, ret, err,
                   extVars, loadVars>>

\* upsert_files is run again over the same files.
FlowRestart ==
    /\ pc \in {"flow_raised", "flow_aborted"}
    /\ run < MaxRuns
    /\ run' = run + 1
    /\ pc' = "nodes"
    /\ fi' = 1
    /\ ci' = 1
    /\ retry_count' = 0
    /\ file_summary_list' = <<>>
    /\ hist' = <<>>
    /\ node_commits' = 0
    /\ rel_txs' = 0
    /\ edge_list' = <<>>
    /\ summary_list' = <<>>
    /\ ret' = NoRet
    /\ err' = NoErr
    /\ passes' = <<>>
    /\ UNCHANGED <<wipeVars, db, omit_zero, nodeVars, tx, extVars, failures, file_list,
                   chunk_size, db0>>

NextLoad ==
    \/ NodePassStart \/ NodeChunkOk \/ NodeChunkRaise \/ NodeChunkFail \/ NodePassEnd
    \/ RelPassStart \/ RelChunkNext \/ RelTry \/ RelSteps
    \/ RelAttemptOk \/ RelAttemptFailed \/ RelPassEnd
    \/ FlowAbort \/ FlowRestart

SpecLoad == InitLoad /\ [][NextLoad]_vars

----------------------------------------------------------------------------
(* The wipes: Loader.wipe_database and Loader.wipe_subgraph.               *)

\* MATCH (n) WITH n LIMIT $batch_size: the sets of nodes the statement may
\* take, any size-many of them, or all of them when there are fewer.
MatchLimit_One(nodes, size) ==
    {S \in SUBSET DOMAIN nodes :
        Cardinality(S) = IF Cardinality(DOMAIN nodes) < 1
                         THEN Cardinality(DOMAIN nodes) ELSE 1}

MatchLimit(nodes, size) ==
    {S \in SUBSET DOMAIN nodes :
        Cardinality(S) = IF Cardinality(DOMAIN nodes) < size
                         THEN Cardinality(DOMAIN nodes) ELSE size}

\* DETACH DELETE n for the nodes with ids in S, nodes only.
DetachDelete_KeepRels(store, S) ==
    [nodes |-> [i \in DOMAIN store.nodes \ S |-> store.nodes[i]],
     rels |-> store.rels]

\* DETACH DELETE n for the nodes with ids in S: the nodes go, and with
\* them every relationship that starts or ends at one of them.
DetachDelete(store, S) ==
    [nodes |-> [i \in DOMAIN store.nodes \ S |-> store.nodes[i]],
     rels |-> [r \in {q \in DOMAIN store.rels :
                        /\ store.rels[q].src \notin S
                        /\ store.rels[q].dst \notin S} |-> store.rels[r]]]

\* wipe_subgraph's root_node_label and root_node_prop arguments.
root_node_label == "participant"

root_node_prop == "guid"

\* MATCH (s:root_node_label {root_node_prop: $subgraph_value})
RootIds(store, value) ==
    {i \in DOMAIN store.nodes :
        /\ store.nodes[i].label = root_node_label
        /\ store.nodes[i].props[root_node_prop] = value}

\* The node at the other end of relationship r, seen from node v.
OtherEnd(rels, r, v) == IF rels[r].src = v THEN rels[r].dst ELSE rels[r].src

\* (s)-[*]-(n): the nodes n at the end of a path of one or more
\* relationships from cur, in either direction, that uses none of them
\* twice and none of those in used.
RECURSIVE PathEnds(_, _, _)
PathEnds(rels, cur, used) ==
    UNION {{OtherEnd(rels, r, cur)}
              \cup PathEnds(rels, OtherEnd(rels, r, cur), used \cup {r}) :
           r \in {q \in DOMAIN rels \ used :
                     cur \in {rels[q].src, rels[q].dst}}}

\* The ids COLLECT(DISTINCT id(n)) gathers over every root s.
ConnectedIds(store, value) ==
    UNION {PathEnds(store.rels, s, {}) : s \in RootIds(store, value)}

\* The orders a COLLECT may list the ids of S in.
Orders(S) ==
    {o \in [1..Cardinality(S) -> S] :
        \A i, j \in 1..Cardinality(S) : o[i] = o[j] => i = j}

\* COLLECT(DISTINCT id(s)) + COLLECT(DISTINCT id(n)): the lists the query
\* may return, the roots' ids and then the connected ids.
NodeIdLists(store, value) ==
    {rs \o ns : rs \in Orders(RootIds(store, value)),
                ns \in Orders(ConnectedIds(store, value))}

\* chunks(lst, size): its k-th list, lst[(k-1)*size : k*size].
chunks(lst, size, k) ==
    SubSeq(lst, (k - 1) * size + 1,
           IF k * size < Len(lst) THEN k * size ELSE Len(lst))

\* The nodes a modelled store may hold, by id.
WipeNodes ==
    <<[label |-> "participant", props |-> [guid |-> "x", name |-> NULL], updated |-> FALSE],
      [label |-> "participant", props |-> [guid |-> "x", name |-> "y"], updated |-> FALSE],
      [label |-> "sample", props |-> [guid |-> "y", name |-> NULL], updated |-> FALSE],
      [label |-> "participant", props |-> [guid |-> "y", name |-> NULL], updated |-> FALSE]>>

\* The relationships a modelled store may hold, by id.
WipeRels ==
    <<[src |-> 2, dst |-> 1, handle |-> "of_participant", updated |-> FALSE],
      [src |-> 3, dst |-> 1, handle |-> "of_participant", updated |-> FALSE],
      [src |-> 3, dst |-> 2, handle |-> "of_participant", updated |-> FALSE],
      [src |-> 3, dst |-> 1, handle |-> "derived_from", updated |-> FALSE],
      [src |-> 3, dst |-> 4, handle |-> "of_participant", updated |-> FALSE],
      [src |-> 4, dst |-> 3, handle |-> "derived_from", updated |-> FALSE]>>

\* The stores: the first k nodes and any relationships among them.
WipeStores ==
    UNION {{[nodes |-> [i \in 1..k |-> WipeNodes[i]],
             rels |-> [r \in R |-> WipeRels[r]]] :
            R \in SUBSET {r \in DOMAIN WipeRels :
                            WipeRels[r].src <= k /\ WipeRels[r].dst <= k}} :
           k \in 0..Len(WipeNodes)}

\* What the wipe specifications start from.
InitWipeCall ==
    /\ db \in WipeStores
    /\ pc = "call"
    /\ omit_zero = FALSE
    /\ node_type = NULL
    /\ records = <<>>
    /\ hist = <<>>
    /\ tx = NoTx
    /\ edge_list = <<>>
    /\ summary_list = <<>>
    /\ ret = NoRet
    /\ err = NoErr
    /\ chunk = NoChunk
    /\ subgraph_col = NoCol
    /\ failures = 0
    /\ file_list = <<>>
    /\ chunk_size = 1
    /\ run = 1
    /\ fi = 1
    /\ ci = 1
    /\ retry_count = 0
    /\ file_summary_list = <<>>
    /\ db0 = db
    /\ node_commits = 0
    /\ rel_txs = 0
    /\ passes = <<>>
    /\ batch_size \in 1..MaxBatch
    /\ node_ids = <<>>
    /\ delete_nodes = 0
    /\ deleted_count = 0
    /\ rounds = 0

\* What every step of a wipe leaves alone.
wipeFrame == <<omit_zero, nodeVars, hist, edge_list, summary_list, extVars,
               loadVars, batch_size, subgraph_value>>

----------------------------------------------------------------------------
(* SpecWipe: one call of wipe_database.                                    *)

InitWipe ==
    /\ InitWipeCall
    /\ subgraph_value = NULL

\* session.begin_transaction()
WipeBegin ==
    /\ pc = "call"
    /\ tx' = <<db>>
    /\ pc' = "wipe_round"
    /\ UNCHANGED <<db, ret, err, failures, node_ids, delete_nodes, deleted_count, rounds,
                   wipeFrame>>

\* One turn of the while loop: the delete statement takes up to batch_size
\* nodes; a turn that deletes none leaves the loop, the transaction
\* commits and delete_nodes is returned.
WipeRound ==
    /\ pc = "wipe_round"
    /\ \E S \in MatchLimit(tx[1].nodes, batch_size) :
        LET after == DetachDelete(tx[1], S)
        IN  /\ deleted_count' = Cardinality(S)
            /\ delete_nodes' = delete_nodes + deleted_count'
            /\ rounds' = rounds + 1
            /\ IF deleted_count' = 0
               THEN /\ db' = after
                    /\ tx' = NoTx
                    /\ ret' = delete_nodes'
                    /\ pc' = "wipe_returned"
               ELSE /\ tx' = <<after>>
                    /\ UNCHANGED <<db, ret, pc>>
    /\ UNCHANGED <<err, failures, node_ids, wipeFrame>>

\* A failed delete statement after which the loop goes on.
WipeRoundFail_Retry ==
    /\ pc = "wipe_round"
    /\ failures < MaxFailures
    /\ failures' = failures + 1
    /\ rounds' = rounds + 1
    /\ err' = [kind |-> "write", call |-> rounds']
    /\ UNCHANGED <<db, tx, pc, ret, node_ids, delete_nodes, deleted_count, wipeFrame>>

\* The delete statement fails: tx.rollback(), raise e.
WipeRoundFail ==
    /\ pc = "wipe_round"
    /\ failures < MaxFailures
    /\ failures' = failures + 1
    /\ rounds' = rounds + 1
    /\ tx' = NoTx
    /\ err' = [kind |-> "write", call |-> rounds']
    /\ pc' = "wipe_raised"
    /\ UNCHANGED <<db, ret, node_ids, delete_nodes, deleted_count, wipeFrame>>

NextWipe == WipeBegin \/ WipeRound \/ WipeRoundFail

SpecWipe == InitWipe /\ [][NextWipe]_vars

----------------------------------------------------------------------------
(* SpecSubgraph: one call of wipe_subgraph.  batch_size is the size given  *)
(* to chunks, 5000 in the source, here a small number.                     *)

InitSubgraph ==
    /\ InitWipeCall
    /\ subgraph_value \in {"x", "y"}

\* The transaction begins and the first statement resolves node_ids.
SubgraphResolve ==
    /\ pc = "call"
    /\ tx' = <<db>>
    /\ node_ids' \in NodeIdLists(db, subgraph_value)
    /\ pc' = "subgraph_batch"
    /\ UNCHANGED <<db, ret, err, failures, delete_nodes, deleted_count, rounds, wipeFrame>>

\* A turn of the for loop that goes on to the next sub-batch whatever it
\* deleted.
SubgraphBatch_NoBreak ==
    /\ pc = "subgraph_batch"
    /\ rounds * batch_size < Len(node_ids)
    /\ LET batch == chunks(node_ids, batch_size, rounds + 1)
           S == Range(batch) \cap DOMAIN tx[1].nodes
       IN  /\ deleted_count' = Cardinality(S)
           /\ delete_nodes' = delete_nodes + deleted_count'
           /\ rounds' = rounds + 1
           /\ tx' = <<DetachDelete(tx[1], S)>>
    /\ UNCHANGED <<db, ret, pc, err, failures, node_ids, wipeFrame>>

\* One turn of the for loop: the statement deletes the nodes of the next
\* sub-batch that the store still holds; a turn that deletes none leaves
\* the loop, the transaction commits and delete_nodes is returned.
SubgraphBatch ==
    /\ pc = "subgraph_batch"
    /\ rounds * batch_size < Len(node_ids)
    /\ LET batch == chunks(node_ids, batch_size, rounds + 1)
           S == Range(batch) \cap DOMAIN tx[1].nodes
           after == DetachDelete(tx[1], S)
       IN  /\ deleted_count' = Cardinality(S)
           /\ delete_nodes' = delete_nodes + deleted_count'
           /\ rounds' = rounds + 1
           /\ IF deleted_count' = 0
              THEN /\ db' = after
                   /\ tx' = NoTx
                   /\ ret' = delete_nodes'
                   /\ pc' = "subgraph_returned"
              ELSE /\ tx' = <<after>>
                   /\ UNCHANGED <<db, ret, pc>>
    /\ UNCHANGED <<err, failures, node_ids, wipeFrame>>

\* A failed delete statement that leaves the earlier sub-batches deleted.
SubgraphBatchFail_KeepEarlier ==
    /\ pc = "subgraph_batch"
    /\ rounds * batch_size < Len(node_ids)
    /\ failures < MaxFailures
    /\ failures' = failures + 1
    /\ rounds' = rounds + 1
    /\ db' = tx[1]
    /\ tx' = NoTx
    /\ err' = [kind |-> "write", call |-> rounds']
    /\ pc' = "subgraph_raised"
    /\ UNCHANGED <<ret, node_ids, delete_nodes, deleted_count, wipeFrame>>

\* The delete statement fails: tx.rollback(), raise e.
SubgraphBatchFail ==
    /\ pc = "subgraph_batch"
    /\ rounds * batch_size < Len(node_ids)
    /\ failures < MaxFailures
    /\ failures' = failures + 1
    /\ rounds' = rounds + 1
    /\ tx' = NoTx
    /\ err' = [kind |-> "write", call |-> rounds']
    /\ pc' = "subgraph_raised"
    /\ UNCHANGED <<db, ret, node_ids, delete_nodes, deleted_count, wipeFrame>>

\* No sub-batch is left: the transaction commits, delete_nodes is returned.
SubgraphReturn ==
    /\ pc = "subgraph_batch"
    /\ rounds * batch_size >= Len(node_ids)
    /\ db' = tx[1]
    /\ tx' = NoTx
    /\ ret' = delete_nodes
    /\ pc' = "subgraph_returned"
    /\ UNCHANGED <<err, failures, node_ids, delete_nodes, deleted_count, rounds, wipeFrame>>

NextSubgraph ==
    SubgraphResolve \/ SubgraphBatch \/ SubgraphBatchFail \/ SubgraphReturn

SpecSubgraph == InitSubgraph /\ [][NextSubgraph]_vars

----------------------------------------------------------------------------
(* SpecWipes: one call of either wipe, wipe_database when subgraph_value   *)
(* is NULL and wipe_subgraph otherwise.                                    *)

InitWipes == InitWipe \/ InitSubgraph

NextWipes ==
    \/ subgraph_value = NULL /\ NextWipe
    \/ subgraph_value # NULL /\ NextSubgraph

SpecWipes == InitWipes /\ [][NextWipes]_vars

----------------------------------------------------------------------------
(* C2: node upsert is idempotent.  Of two calls that both return, the      *)
(* later leaves the entities and their non-timestamp properties as the     *)
(* earlier left them, one entity per (type, identifier), and reports zero  *)
(* nodes created.                                                          *)

C2_NodeUpsertIdempotent ==
    \A i, j \in DOMAIN hist :
        (i < j /\ hist[i].state = "returned" /\ hist[j].state = "returned")
        => /\ Strip(hist[j].after) = Strip(hist[i].after)
           /\ UniqueEntities(hist[j].after)
           /\ SummaryGet(hist[j].summary, "nodes_created") = 0

\* Two calls returned, the first of which created a node and the second of
\* which matched it.
C2_Witness ==
    /\ Len(hist) = 2
    /\ hist[1].state = "returned" /\ hist[2].state = "returned"
    /\ SummaryGet(hist[1].summary, "nodes_created") > 0
    /\ \E i \in DOMAIN hist[2].after.nodes : hist[2].after.nodes[i].updated

----------------------------------------------------------------------------
(* C3: relationship upsert is idempotent.  Of two calls that both return,  *)
(* the later leaves the relationships as the earlier left them and reports *)
(* zero relationships created; and the store never holds, committed or in  *)
(* the open transaction, two relationships with the same (source entity,   *)
(* destination entity, handle).                                            *)

C3_RelUpsertIdempotent ==
    /\ UniqueRelationships(db)
    /\ tx # NoTx => UniqueRelationships(tx[1])
    /\ \A i, j \in DOMAIN hist :
        (i < j /\ hist[i].state = "returned" /\ hist[j].state = "returned")
        => /\ Strip(hist[j].after) = Strip(hist[i].after)
           /\ SummaryGet(hist[j].summary, "relationships_created") = 0

\* Two calls returned, the first of which created a relationship and the
\* second of which matched it.
C3_Witness ==
    /\ Len(hist) = 2
    /\ hist[1].state = "returned" /\ hist[2].state = "returned"
    /\ SummaryGet(hist[1].summary, "relationships_created") > 0
    /\ \E i \in DOMAIN db.rels : db.rels[i].updated

----------------------------------------------------------------------------
(* C9: grouping is equivalent to one undifferentiated write.               *)

\* The whole list written as one operation, each descriptor matched by
\* its own labels, properties and handle.
RECURSIVE WriteUndifferentiated(_, _, _, _)
WriteUndifferentiated(acc, nodes, edges, i) ==
    IF i > Len(edges)
    THEN acc
    ELSE WriteUndifferentiated(
            MergeEdgeRow(acc, nodes, edges[i], edges[i].src_label, edges[i].src_prop,
                         edges[i].dst_label, edges[i].dst_prop, edges[i].handle),
            nodes, edges, i + 1)

RelTriples(rels) ==
    {<<rels[i].src, rels[i].dst, rels[i].handle>> : i \in DOMAIN rels}

\* C9: a call that returns leaves the relationships, and reports the
\* relationships-created count, of the undifferentiated write of its list.
C9_GroupingEquivalent ==
    \A i \in DOMAIN hist :
        hist[i].state = "returned"
        => LET ref == WriteUndifferentiated(
                        [rels |-> hist[i].before.rels, created |-> 0, merged |-> 0],
                        hist[i].before.nodes, edge_list, 1)
           IN  /\ RelTriples(hist[i].after.rels) = RelTriples(ref.rels)
               /\ SummaryGet(hist[i].summary, "relationships_created") = ref.created

----------------------------------------------------------------------------
(* C10: generate_chunk_records gives one record per row, in row order; a   *)
(* record's keys are the batch's columns other than "type", the            *)
(* subgraph-tag column and the columns with a "." in their name; its       *)
(* values are the row's cells as strings, "" for an empty cell.            *)

C10_RecordsOfRows ==
    pc = "records_returned"
    => /\ Len(records) = Len(chunk.rows)
       /\ \A r \in DOMAIN records :
            /\ DOMAIN records[r] =
                  {c[1] : c \in {d \in Range(chunk.columns) :
                                   d # TypeCol /\ d # subgraph_col /\ Len(d) = 1}}
            /\ \A k \in DOMAIN records[r] :
                  /\ records[r][k] # NaN
                  /\ IF Cell(chunk, r, <<k>>) \in {"", NaN}
                     THEN records[r][k] = ""
                     ELSE records[r][k] = Cell(chunk, r, <<k>>)

\* Records were extracted from two rows of a batch with a type column, a
\* relationship column and a subgraph-tag column, one cell being empty.
C10_Witness ==
    /\ pc = "records_returned"
    /\ Len(records) = 2
    /\ subgraph_col = <<"study_id">>
    /\ Len(chunk.columns) = 4
    /\ Cell(chunk, 1, <<"guid">>) = NaN
    /\ Cell(chunk, 2, <<"guid">>) = "x"
    /\ records[1]["guid"] = ""

----------------------------------------------------------------------------
(* C1: the retry loop of upsert_file_relationships.                        *)

Last(seq) == seq[Len(seq)]

\* The descriptors of the batch an attempt was made for.
ChunkRelationships(a) ==
    generate_chunk_relationships(
        read_file_in_chunks(file_list[a.file], chunk_size)[a.chunk], id_field).edges

\* C1: a batch's write is attempted at most 3 times, each time with all of
\* the batch's descriptors; no attempt follows one that returned, whose
\* summary is the one last added to the pass's summaries; and when the
\* third attempt has raised, its error is the one upsert_files ends with.
C1_RetryBound ==
    /\ Len(hist) <= 3
    /\ \A i \in DOMAIN hist :
        /\ hist[i].edges = ChunkRelationships(hist[i])
        /\ i < Len(hist) => hist[i].state = "raised"
    /\ (hist # <<>> /\ Last(hist).state = "returned")
        => /\ file_summary_list # <<>>
           /\ Last(file_summary_list) = Last(hist).summary
    /\ (hist # <<>> /\ Last(hist).state = "raised")
        => IF Len(hist) = 3
           THEN /\ pc = "flow_raised"
                /\ err = hist[3].err
                /\ err.call = 3
           ELSE pc \in {"rel_try", "flow_aborted"}

\* A batch's write failed twice and returned at the third attempt.
C1_Witness ==
    /\ Len(hist) = 3
    /\ hist[1].state = "raised"
    /\ hist[2].state = "raised"
    /\ hist[3].state = "returned"
    /\ SummaryGet(hist[3].summary, "relationships_created") > 0

----------------------------------------------------------------------------
(* C4: resumability.                                                       *)

\* The node batches of a file written one after the other.
RECURSIVE NodePassOf(_, _, _)
NodePassOf(store, batches, i) ==
    IF i > Len(batches)
    THEN store
    ELSE LET g == generate_chunk_records(batches[i], subgraph_col)
         IN  NodePassOf(upsert_chunk_records_with_tx(store, g.chunk_type, g.records,
                                                     id_field, FALSE).db,
                        batches, i + 1)

RECURSIVE RunGroups(_, _, _)
RunGroups(store, groups, i) ==
    IF i > Len(groups)
    THEN store
    ELSE RunGroups(RunGroup(store, groups[i].key, groups[i].group, FALSE).db,
                   groups, i + 1)

\* The relationship batches of a file written one after the other.
RECURSIVE RelPassOf(_, _, _)
RelPassOf(store, batches, i) ==
    IF i > Len(batches)
    THEN store
    ELSE RelPassOf(
            RunGroups(store,
                      grouped_edges(generate_chunk_relationships(batches[i], id_field).edges),
                      1),
            batches, i + 1)

RECURSIVE NodePasses(_, _)
NodePasses(store, f) ==
    IF f > Len(file_list)
    THEN store
    ELSE NodePasses(NodePassOf(store, read_file_in_chunks(file_list[f], chunk_size), 1),
                    f + 1)

RECURSIVE RelPasses(_, _)
RelPasses(store, f) ==
    IF f > Len(file_list)
    THEN store
    ELSE RelPasses(RelPassOf(store, read_file_in_chunks(file_list[f], chunk_size), 1),
                   f + 1)

\* The store one run without an error leaves.
UninterruptedLoad(store) == RelPasses(NodePasses(store, 1), 1)

\* C4: a run that completes, whatever runs were cut short before it,
\* leaves the entities, non-timestamp properties and relationships that
\* one uninterrupted run from the first store leaves, none of them twice.
C4_Resumable ==
    pc = "flow_done"
    => /\ Strip(db) = Strip(UninterruptedLoad(db0))
       /\ UniqueEntities(db)
       /\ UniqueRelationships(db)

\* The second run completed after a first run that had committed a node
\* batch and a relationship batch before it was cut short.
C4_Witness ==
    /\ pc = "flow_done"
    /\ run = 2
    /\ db0 = EmptyDb
    /\ \E i \in DOMAIN db.nodes : db.nodes[i].updated
    /\ \E i \in DOMAIN db.rels : db.rels[i].updated
    /\ \E i \in DOMAIN db.rels : ~db.rels[i].updated

----------------------------------------------------------------------------
(* C5: all node passes precede every relationship write.                   *)

RECURSIVE TotalChunks(_)
TotalChunks(f) ==
    IF f > Len(file_list)
    THEN 0
    ELSE Len(read_file_in_chunks(file_list[f], chunk_size)) + TotalChunks(f + 1)

\* C5: once a relationship transaction has begun in a run, every node
\* batch of every file has been committed in that run, and none is
\* committed after it.
C5_NodesBeforeRelationships ==
    rel_txs > 0 => node_commits = TotalChunks(1)

\* A relationship transaction is open in a run over two files.
C5_Witness ==
    /\ rel_txs > 0
    /\ tx # NoTx
    /\ Len(file_list) = 2
    /\ node_commits > 2

----------------------------------------------------------------------------
(* The wipes' claims.                                                      *)

\* N: the entities the store held when the wipe started.
EntitiesAtStart == Cardinality(DOMAIN db0.nodes)

\* ceil(n / d)
CeilDiv(n, d) == (n + d - 1) \div d

\* C6: wipe_database, when every round succeeds, terminates, leaves the
\* store with no entity and no relationship, and returns N, the number of
\* entities there when it started, for every batch_size >= 1.  While the loop
\* runs, what is left and what was deleted add up to N and every round so
\* far deleted at least one entity, so the loop makes at most N + 1 rounds;
\* when the call has returned, the committed store is empty and the value
\* returned is N.
C6_WipeDatabase ==
    /\ pc = "wipe_round"
        => /\ Cardinality(DOMAIN tx[1].nodes) + delete_nodes = EntitiesAtStart
           /\ rounds <= delete_nodes
           /\ rounds <= EntitiesAtStart
           /\ db = db0
    /\ pc = "wipe_returned"
        => /\ DOMAIN db.nodes = {}
           /\ DOMAIN db.rels = {}
           /\ ret = EntitiesAtStart
           /\ rounds <= EntitiesAtStart + 1
           /\ tx = NoTx

C6_Witness ==
    /\ pc = "wipe_returned"
    /\ EntitiesAtStart > batch_size
    /\ batch_size > 1
    /\ DOMAIN db0.rels # {}
    /\ ret = EntitiesAtStart

\* C7 as stated: wipe_database runs exactly one delete round on an empty
\* database and exactly ceil(N / batch_size) rounds on N > batch_size
\* entities.
C7_RoundsAsStated ==
    pc = "wipe_returned"
        => /\ EntitiesAtStart = 0 => rounds = 1
           /\ EntitiesAtStart > batch_size
                => rounds = CeilDiv(EntitiesAtStart, batch_size)

\* C7, amended: wipe_database runs exactly ceil(N / batch_size) + 1 delete
\* rounds on a database of N entities, the last of which deletes nothing:
\* one round on an empty database.
C7_Rounds ==
    pc = "wipe_returned"
        => /\ rounds = CeilDiv(EntitiesAtStart, batch_size) + 1
           /\ EntitiesAtStart = 0 => rounds = 1

C7_Witness ==
    /\ pc = "wipe_returned"
    /\ EntitiesAtStart > batch_size
    /\ batch_size > 1
    /\ rounds = CeilDiv(EntitiesAtStart, batch_size) + 1

\* The entities within reach of S in one step, in either direction.
Neighbours(store, S) ==
    {store.rels[r].src : r \in {q \in DOMAIN store.rels : store.rels[q].dst \in S}}
        \cup {store.rels[r].dst : r \in {q \in DOMAIN store.rels : store.rels[q].src \in S}}

\* The entities connected to one of S by a path of any length.
RECURSIVE Component(_, _)
Component(store, S) ==
    IF Neighbours(store, S) \subseteq S
    THEN S
    ELSE Component(store, S \cup Neighbours(store, S))

\* The entities the subgraph wipe is to delete.
SubgraphOf(store, value) == Component(store, RootIds(store, value))

\* C8: wipe_subgraph, when every round succeeds, deletes exactly the
\* entities matching the root and every entity connected to such a root by a
\* path of any length in either direction, leaves every other entity and
\* the relationships among them intact, and returns the number of entities
\* deleted, for every graph and every sub-batch size.
C8_SubgraphWiped ==
    pc = "subgraph_returned"
        => /\ db = DetachDelete(db0, SubgraphOf(db0, subgraph_value))
           /\ ret = Cardinality(SubgraphOf(db0, subgraph_value))

----------------------------------------------------------------------------
(* C11: the Edge Descriptors of a batch.                                   *)

\* The (column, row) pairs of the batch whose cell is not empty.
FilledPairs ==
    {p \in Range(edge_columns(chunk)) \X DOMAIN chunk.rows :
        Cell(chunk, p[2], p[1]) # ""}

\* The descriptor of a pair: of a relationship column and a row.
DescribesPair(d, p) ==
    /\ d.src_label = Cell(chunk, 1, TypeCol)
    /\ d.src_prop = id_field
    /\ d.src_match = Cell(chunk, p[2], <<id_field>>)
    /\ d.dst_label = p[1][1]
    /\ <<d.dst_prop>> = Tail(p[1])
    /\ d.dst_match = Cell(chunk, p[2], p[1])
    /\ \E i \in DOMAIN ModelEdges :
          ModelEdges[i] = <<d.handle, d.src_label, d.dst_label>>

----------------------------------------------------------------------------
(* C12: a file's failure and the other files of the run.                   *)

\* A pass of the given kind was begun for file f in this run.
PassBegun(kind, f) ==
    \E i \in DOMAIN passes : passes[i].kind = kind /\ passes[i].file = f

\* C12: when a pass of one file has failed, every other file of the list
\* still has its node pass and its relationship pass executed: a run that
\* has ended with a file's error has begun both passes of every other file.
C12_OtherFilesStillLoaded ==
    pc = "flow_raised"
        => \A f \in DOMAIN file_list :
              f # fi => PassBegun("nodes", f) /\ PassBegun("rels", f)

----------------------------------------------------------------------------
(* C13: no cross-chunk rollback.                                           *)

\* The store after the first n batches of the pass that is running, each
\* written once, from the store the pass started with.
AfterBatches(n) ==
    IF Last(passes).kind = "nodes"
    THEN NodePassOf(Last(passes).db, SubSeq(Chunks, 1, n), 1)
    ELSE RelPassOf(Last(passes).db, SubSeq(Chunks, 1, n), 1)

\* The node write of batch ci failed.
NodeWriteFailed ==
    /\ pc = "flow_raised"
    /\ passes # <<>>
    /\ Last(passes).kind = "nodes"
    /\ err.kind \in {"write", "statement"}

\* The relationship write of batch ci failed three times.
RetriesExhausted ==
    /\ pc = "flow_raised"
    /\ passes # <<>>
    /\ Last(passes).kind = "rels"
    /\ Len(hist) = max_retries
    /\ Last(hist).state = "raised"

\* C13: when batch k of a file has failed in either pass and the error has
\* left the pass, no transaction is open and the store holds what batches
\* 1..k-1 of that file committed, timestamps aside: exactly that when no
\* attempt of batch k committed, and that with batch k's relationships when
\* an attempt raised after its commit.
C13_NoCrossChunkRollback ==
    /\ NodeWriteFailed
        => /\ tx = NoTx
           /\ db = AfterBatches(ci - 1)
    /\ RetriesExhausted
        => /\ tx = NoTx
           /\ IF \A i \in DOMAIN hist : hist[i].after = hist[i].before
              THEN Strip(db) = Strip(AfterBatches(ci - 1))
              ELSE Strip(db) = Strip(AfterBatches(ci))

\* The second relationship batch of a file failed three times after the
\* first had created a relationship.
C13_Witness ==
    /\ RetriesExhausted
    /\ ci = 2
    /\ \A i \in DOMAIN hist : hist[i].after = hist[i].before
    /\ DOMAIN db.rels # DOMAIN Last(passes).db.rels

----------------------------------------------------------------------------
(* C14: a failed node write.                                               *)

\* C14: a node batch whose write fails is written once and not again: in
\* every node pass the writes run are those of batches 1, 2, ... in order,
\* each once; a write that failed is the last of its pass, which is the
\* pass the run ended in, with the error out of upsert_file_records; and
\* the store is then the one the batches before it left.
C14_FailedNodeWriteEndsPass ==
    \A p \in DOMAIN passes :
        /\ \A i \in DOMAIN passes[p].writes : passes[p].writes[i].chunk = i
        /\ \A i \in DOMAIN passes[p].writes :
              ~passes[p].writes[i].ok
                  => /\ i = Len(passes[p].writes)
                     /\ p = Len(passes)
                     /\ pc = "flow_raised"
                     /\ err.kind \in {"write", "statement"}
                     /\ ci = i
                     /\ tx = NoTx
                     /\ db = AfterBatches(i - 1)

\* The write of a file's second node batch failed after the first batch
\* had been committed, and a batch was left to write.
C14_Witness ==
    /\ pc = "flow_raised"
    /\ err.kind = "write"
    /\ passes # <<>>
    /\ Last(passes).kind = "nodes"
    /\ Len(Last(passes).writes) = 2
    /\ ~Last(passes).writes[2].ok
    /\ Len(Chunks) > 2
    /\ db # Last(passes).db

----------------------------------------------------------------------------
(* C15: dangling references.                                               *)

\* The entities a descriptor names as its source and as its destination.
SrcOf(nodes, e) == MatchNodes(nodes, e.src_label, e.src_prop, e.src_match)

DstOf(nodes, e) == MatchNodes(nodes, e.dst_label, e.dst_prop, e.dst_match)

HasRel(rels, s, d, handle) ==
    \E r \in DOMAIN rels :
        rels[r].src = s /\ rels[r].dst = d /\ rels[r].handle = handle

\* C15: a call that returns has created no entity; every relationship it
\* created joins a source and a destination that a descriptor of the list
\* names, so a descriptor with a missing endpoint has created none; and
\* every descriptor whose two endpoints exist has its relationship,
\* whatever other descriptors are in the list.
C15_DanglingSkipped ==
    \A c \in DOMAIN hist :
        hist[c].state = "returned"
        => LET before == hist[c].before
               after == hist[c].after
           IN  /\ Strip(after).nodes = Strip(before).nodes
               /\ \A r \in DOMAIN after.rels \ DOMAIN before.rels :
                     \E i \in DOMAIN edge_list :
                        /\ after.rels[r].src \in SrcOf(before.nodes, edge_list[i])
                        /\ after.rels[r].dst \in DstOf(before.nodes, edge_list[i])
                        /\ after.rels[r].handle = edge_list[i].handle
               /\ \A i \in DOMAIN edge_list :
                     \A s \in SrcOf(before.nodes, edge_list[i]) :
                        \A d \in DstOf(before.nodes, edge_list[i]) :
                           HasRel(after.rels, s, d, edge_list[i].handle)

----------------------------------------------------------------------------
(* C16: a relationship chunk is written atomically.                        *)

\* A call of upsert_chunk_relationships_with_tx is under way or has just
\* ended.
AttemptUnderWay == hist # <<>> /\ Last(hist).state = "running"

\* C16: all groups of an attempt run in one transaction.  While the groups
\* run the committed store is the one before the attempt; after a group's
\* write has failed no transaction is open and the store is still the one
\* before the attempt, whatever earlier groups of the attempt wrote; and
\* the store differs from the one before the attempt only when every group
\* of the attempt has succeeded, and then holds what all of them wrote.
C16_ChunkAtomic ==
    AttemptUnderWay
    => LET before == Last(hist).before
       IN  /\ pc \in {"rel_begin", "rel_group"} => db = before
           /\ pc = "rel_group" => tx # NoTx
           /\ (pc = "rel_raised" /\ err.kind = "write")
                 => db = before /\ tx = NoTx
           /\ db # before
                 => /\ pc \in {"rel_returned", "rel_raised"}
                    /\ Len(summary_list) = Len(grouped_edges(edge_list))
                    /\ db = RunGroups(before, grouped_edges(edge_list), 1)

\* The second group's write failed after the first group had created a
\* relationship in the same attempt.
C16_Witness ==
    /\ AttemptUnderWay
    /\ pc = "rel_raised"
    /\ err.kind = "write"
    /\ Len(summary_list) = 1
    /\ SummaryGet(summary_list[1], "relationships_created") > 0
    /\ Len(grouped_edges(edge_list)) = 2

----------------------------------------------------------------------------
(* C17: no transaction is leaked.                                          *)

\* C17: the session of a file pass has at most one transaction open, and
\* only while the groups of one attempt run: a transaction is open only
\* inside an attempt that has begun and not yet returned or raised, so none
\* is open when an attempt returns or raises, when a retry or the next
\* batch begins, or when the pass or the run has ended.
C17_NoLeakedTransaction ==
    /\ tx # NoTx
        => /\ pc = "rel_group"
           /\ AttemptUnderWay
           /\ rel_txs >= 1
    /\ pc # "rel_group" => tx = NoTx

\* A retry begins, with no transaction open, after an attempt in which a
\* group had written before a later group failed.
C17_Witness ==
    /\ pc = "rel_begin"
    /\ tx = NoTx
    /\ Len(hist) = 2
    /\ hist[1].state = "raised"
    /\ hist[1].err.kind = "write"
    /\ summary_list # <<>>

----------------------------------------------------------------------------
(* C18: the property names within a group.                                 *)

\* C18: every group that upsert_chunk_relationships_with_tx builds from
\* the descriptors generate_chunk_relationships returned is homogeneous:
\* all its descriptors have the src_prop and the dst_prop of its first
\* descriptor, the ones the group's statement is written with.
C18_GroupsHomogeneous ==
    pc = "edges_returned"
        => \A g \in DOMAIN grouped_edges(edge_list) :
              LET group == grouped_edges(edge_list)[g].group
              IN  \A i \in DOMAIN group :
                     /\ group[i].src_prop = group[1].src_prop
                     /\ group[i].dst_prop = group[1].dst_prop

----------------------------------------------------------------------------
(* C19: grouping is a lossless partition.                                  *)

\* The (src_label, dst_label, handle) of a descriptor.
Triple(e) == <<e.src_label, e.dst_label, e.handle>>

\* The places of the groups: (group, place in the group).
GroupPlaces(groups) ==
    UNION {{<<g, j>> : j \in DOMAIN groups[g].group} : g \in DOMAIN groups}

\* The distinct (src_label, dst_label, handle) of a descriptor list.
Triples(edges) == {Triple(edges[i]) : i \in DOMAIN edges}

\* C19: for a non-empty descriptor list, as the call receives it, the
\* groups are a partition of the list: every descriptor is at as many
\* places of the groups as of the list, the groups hold nothing else, each
\* descriptor is in a group whose key is its (src_label, dst_label,
\* handle), and no two groups have the same key, so there are as many
\* groups as distinct triples; and an attempt runs one statement per
\* distinct triple: never more, and exactly as many when it returns.
C19_GroupsPartition ==
    edge_list # <<>>
    => /\ pc = "call"
          => LET groups == grouped_edges(edge_list)
             IN  /\ \A d \in Range(edge_list) :
                       Cardinality({i \in DOMAIN edge_list : edge_list[i] = d})
                          = Cardinality({q \in GroupPlaces(groups) :
                                           groups[q[1]].group[q[2]] = d})
                 /\ \A q \in GroupPlaces(groups) :
                       /\ groups[q[1]].group[q[2]] \in Range(edge_list)
                       /\ groups[q[1]].key = Triple(groups[q[1]].group[q[2]])
                 /\ \A g, h \in DOMAIN groups : groups[g].key = groups[h].key => g = h
                 /\ Len(groups) = Cardinality(Triples(edge_list))
       /\ pc = "rel_group" => Len(summary_list) <= Cardinality(Triples(edge_list))
       /\ pc = "rel_returned" => Len(summary_list) = Cardinality(Triples(edge_list))

\* An attempt returned for a list of two descriptors of different triples
\* given in the order opposite to the sorted one: two statements were run.
C19_Witness ==
    /\ pc = "rel_returned"
    /\ Len(edge_list) = 2
    /\ edge_list[1].handle = "derived_from"
    /\ edge_list[2].handle = "of_participant"
    /\ Len(summary_list) = 2

----------------------------------------------------------------------------
(* C20: the combined summary does not depend on the order.                 *)

\* The orders of the places of a list.
PlaceOrders(list) ==
    {f \in [DOMAIN list -> DOMAIN list] : \A i, j \in DOMAIN list : f[i] = f[j] => i = j}

\* The key-wise sum of the summaries of a list, over every key one carries.
KeywiseSum(list) ==
    [k \in UNION {DOMAIN list[i] : i \in DOMAIN list} |-> SumKey(list, k, 1)]

\* C20: when all groups of a chunk have run, combining their summaries in
\* any order returns the key-wise sum of the summaries, whether or not
\* the summaries carry the same counter keys.
C20_OrderIndependent ==
    (/\ pc = "rel_group"
     /\ summary_list # <<>>
     /\ Len(summary_list) = Len(grouped_edges(edge_list)))
    => \A f \in PlaceOrders(summary_list) :
          LET list == [i \in DOMAIN summary_list |-> summary_list[f[i]]]
          IN  /\ ~CombineRaises(list)
              /\ Combine(list) = KeywiseSum(summary_list)

----------------------------------------------------------------------------
(* C21, C22: a wipe whose delete statement fails.                          *)

\* The wipe has raised.
WipeRaised == pc \in {"wipe_raised", "subgraph_raised"}

\* C21: in wipe_database and in wipe_subgraph a failed deletion round is
\* rolled back and its error raised to the caller: a round that failed
\* means the call has raised; the transaction is then closed without a
\* commit, nothing is returned, the failed round is the last round run and
\* the only one that failed.
C21_FailedRoundRaises ==
    /\ failures > 0 => WipeRaised
    /\ WipeRaised
        => /\ tx = NoTx
           /\ db = db0
           /\ ret = NoRet
           /\ err.kind = "write"
           /\ err.call = rounds
           /\ failures = 1

\* wipe_database raised in a round that followed one that deleted.
C21_Witness ==
    /\ pc = "wipe_raised"
    /\ rounds >= 2
    /\ delete_nodes > 0
    /\ err.call = rounds

\* C22: a wipe is all or nothing.  While its rounds run and after it has
\* raised, the store holds what it held before the call, whatever the
\* rounds before deleted in the transaction; the store changes only when
\* the call returns, and then holds what the last round left.
C22_AllOrNothing ==
    /\ pc \in {"wipe_round", "subgraph_batch"} => db = db0
    /\ WipeRaised => db = db0 /\ tx = NoTx
    /\ db # db0 => pc \in {"wipe_returned", "subgraph_returned"}

\* wipe_subgraph raised in its second round or later, after deleting
\* entities and relationships in the transaction.
C22_Witness ==
    /\ pc = "subgraph_raised"
    /\ rounds >= 2
    /\ delete_nodes > 0
    /\ DOMAIN db0.rels # {}
    /\ db = db0

----------------------------------------------------------------------------
(* C23: the sub-batches wipe_subgraph runs.                                *)

\* The sub-batches chunks(node_ids, size) yields.
SubBatches == CeilDiv(Len(node_ids), batch_size)

----------------------------------------------------------------------------
(* C24: a relationship column the model declares no edge for.              *)

\* The batch has a relationship column <parent>.<prop> and the model
\* declares no edge from the batch's type to <parent>.
UndeclaredColumn(batch) ==
    \E i \in DOMAIN batch.columns :
        /\ HasDot(batch.columns[i])
        /\ \A e \in DOMAIN ModelEdges :
              ~(ModelEdges[e][2] = batch.rows[1][ColIndex(batch, TypeCol)]
                /\ ModelEdges[e][3] = batch.columns[i][1])

\* The relationship pass of a file is under way.
InRelPass ==
    /\ passes # <<>>
    /\ Last(passes).kind = "rels"
    /\ pc \in {"rel_chunk", "rel_try", "rel_begin", "rel_group", "rel_returned",
               "rel_raised"}

\* C24: generate_chunk_relationships raises a lookup error for every batch
\* with a relationship column for which no edge is declared, also when all
\* cells of the column are empty, and returns no descriptor.  In the
\* relationship pass no write is made for such a batch and the pass does
\* not go past it: the batches before the one the pass is at have no such
\* column, nor has the batch whose descriptors are being written.
C24_UndeclaredColumnRaises ==
    /\ \A f \in DOMAIN file_list :
          \A k \in DOMAIN read_file_in_chunks(file_list[f], chunk_size) :
              LET batch == read_file_in_chunks(file_list[f], chunk_size)[k]
              IN  UndeclaredColumn(batch)
                     => /\ generate_chunk_relationships(batch, id_field).raised
                        /\ generate_chunk_relationships(batch, id_field).edges = <<>>
    /\ InRelPass
        => /\ \A k \in 1..(ci - 1) : ~UndeclaredColumn(Chunks[k])
           /\ pc # "rel_chunk" => ~UndeclaredColumn(Chunks[ci])
    /\ (pc = "flow_raised" /\ err.kind = "lookup")
        => /\ UndeclaredColumn(Chunks[ci])
           /\ tx = NoTx
           /\ hist = <<>> \/ Last(hist).chunk # ci \/ Last(hist).file # fi

\* The pass raised the lookup error at a batch whose undeclared column
\* has only empty cells and whose declared column has a filled cell.
C24_Witness ==
    /\ pc = "flow_raised"
    /\ err.kind = "lookup"
    /\ UndeclaredColumn(Chunks[ci])
    /\ \A r \in DOMAIN Chunks[ci].rows : Cell(Chunks[ci], r, <<"study", "guid">>) = ""
    /\ \E r \in DOMAIN Chunks[ci].rows : Cell(Chunks[ci], r, <<"participant", "guid">>) # ""
    /\ rel_txs = 0

----------------------------------------------------------------------------
(* C25: batches without an Edge Descriptor.                                *)

\* The batch yields no Edge Descriptor: it has a row, and either no
\* relationship column or only empty cells in those it has.
NoDescriptor(batch) ==
    /\ batch.rows # <<>>
    /\ \A i \in DOMAIN batch.columns :
          HasDot(batch.columns[i])
              => \A r \in DOMAIN batch.rows : batch.rows[r][i] = ""

\* A file pass has returned and upsert_files has not yet made its next call.
PassReturned == passes # <<>> /\ pc \in {"nodes", "rels", "flow_done"}

\* The batches of the file of the last pass begun.
PassChunks == read_file_in_chunks(file_list[Last(passes).file], chunk_size)

\* C25: in the relationship pass a batch that yields no descriptor is
\* passed over: the pass is at such a batch only between batches, with no
\* transaction open, and no attempt is made for it.  A pass that has
\* returned for a file none of whose batches yields a descriptor left the
\* store as it was when the pass began and returned the seven counters,
\* all 0.
C25_EmptyChunksSkipped ==
    /\ (InRelPass /\ ci <= Len(Chunks) /\ NoDescriptor(Chunks[ci]))
        => /\ pc = "rel_chunk"
           /\ tx = NoTx
    /\ (InRelPass /\ pc = "rel_chunk"
            /\ (\A k \in 1..(ci - 1) : NoDescriptor(Chunks[k])))
        => /\ db = Last(passes).db
           /\ file_summary_list = <<>>
    /\ (/\ PassReturned
        /\ Last(passes).kind = "rels"
        /\ \A k \in DOMAIN PassChunks : NoDescriptor(PassChunks[k]))
        => /\ db = Last(passes).db
           /\ DOMAIN ret = {"labels_added", "labels_removed", "nodes_created",
                            "nodes_deleted", "properties_set",
                            "relationships_created", "relationships_deleted"}
           /\ \A k \in DOMAIN ret : ret[k] = 0

\* The relationship pass has returned for a file with a relationship
\* column whose cells are all empty, read in two batches.
C25_Witness ==
    /\ PassReturned
    /\ Last(passes).kind = "rels"
    /\ file_list[Last(passes).file] = UnlinkedFile
    /\ Len(PassChunks) = 2
    /\ ret = ZeroSummary
    /\ rel_txs = 0

----------------------------------------------------------------------------
(* C26: the file passes return when every write succeeds.                  *)

\* C26: a file pass in which no write failed returns a summary and does
\* not raise, also for a file with a header and no rows, for which both
\* passes return a summary whose counters are all 0.
C26_PassesReturn ==
    /\ (pc = "flow_raised" /\ failures = 0) => file_list[fi].rows # <<>>
    /\ (PassReturned /\ file_list[Last(passes).file].rows = <<>>)
        => \A k \in DOMAIN ret : ret[k] = 0

----------------------------------------------------------------------------
(* C27: the node batches of a file are written in source order.            *)

\* The store after the first n rows of file f, written one row at a time
\* in the order of the file, from store.
AfterRows(store, f, n) ==
    NodePassOf(store, SubSeq(read_file_in_chunks(file_list[f], 1), 1, n), 1)

\* The rows of the first n batches of file f.
RowsIn(f, n) ==
    IF n * chunk_size < Len(file_list[f].rows)
    THEN n * chunk_size
    ELSE Len(file_list[f].rows)

\* C27: in every node pass the writes run are those of batches 1, 2, ...
\* in that order, each once, and a write is followed by another only if
\* it was committed.  Between two batches no transaction is open and the
\* store holds the rows of the batches before, written in file order; a
\* pass that returned has written every batch of its file once, and the
\* store then holds all rows of the file, written in file order.
C27_NodeChunksInOrder ==
    /\ \A p \in DOMAIN passes :
          passes[p].kind = "nodes"
              => /\ \A i \in DOMAIN passes[p].writes :
                       /\ passes[p].writes[i].chunk = i
                       /\ i < Len(passes[p].writes) => passes[p].writes[i].ok
                 /\ (p < Len(passes) \/ PassReturned)
                       => /\ Len(passes[p].writes)
                               = Len(read_file_in_chunks(file_list[passes[p].file],
                                                         chunk_size))
                          /\ \A i \in DOMAIN passes[p].writes : passes[p].writes[i].ok
    /\ pc = "node_chunk"
        => /\ tx = NoTx
           /\ Len(Last(passes).writes) = ci - 1
           /\ node_commits >= ci - 1
           /\ db = AfterRows(Last(passes).db, fi, RowsIn(fi, ci - 1))
    /\ (PassReturned /\ Last(passes).kind = "nodes")
        => db = AfterRows(Last(passes).db, Last(passes).file,
                          Len(file_list[Last(passes).file].rows))

\* The node pass of the file of three rows has returned after three
\* batches, the last of which wrote the entity of the first again.
C27_Witness ==
    /\ PassReturned
    /\ Last(passes).kind = "nodes"
    /\ file_list[Last(passes).file] = LongFile
    /\ Len(Last(passes).writes) = 3
    /\ node_commits = 3
    /\ \E i \in DOMAIN db.nodes : db.nodes[i].props = [guid |-> "x", name |-> "y"]

----------------------------------------------------------------------------
(* C28: the states of a file's load.                                       *)

\* The pass of the given kind begun for file f in this run, or 0.
PassOf(kind, f) ==
    IF PassBegun(kind, f)
    THEN CHOOSE p \in DOMAIN passes : passes[p].kind = kind /\ passes[p].file = f
    ELSE 0

\* Where pass p is: running, ended with an error, or returned.
PassState(p) ==
    IF p < Len(passes) \/ PassReturned
    THEN "returned"
    ELSE IF pc \in {"flow_raised", "flow_aborted"} THEN "failed" ELSE "running"

\* The state of the load of file f in this run.
FileState(f) ==
    IF PassOf("rels", f) # 0
    THEN CASE PassState(PassOf("rels", f)) = "returned" -> "EDGES_DONE"
           [] PassState(PassOf("rels", f)) = "failed" -> "FAILED"
           [] OTHER -> "EDGES_LOADING"
    ELSE IF PassOf("nodes", f) # 0
    THEN CASE PassState(PassOf("nodes", f)) = "returned" -> "NODES_DONE"
           [] PassState(PassOf("nodes", f)) = "failed" -> "FAILED"
           [] OTHER -> "NODES_LOADING"
    ELSE "PENDING"

\* The steps a file's load may take.
FileStep(from, to) ==
    \/ from = to
    \/ <<from, to>> \in {<<"PENDING", "NODES_LOADING">>,
                         <<"NODES_LOADING", "NODES_DONE">>,
                         <<"NODES_DONE", "EDGES_LOADING">>,
                         <<"EDGES_LOADING", "EDGES_DONE">>,
                         <<"NODES_LOADING", "FAILED">>,
                         <<"EDGES_LOADING", "FAILED">>}

\* Within a run every file's load takes only these steps, whatever step
\* upsert_files takes (an abort by its caller is no step of it): no state
\* is entered again, and EDGES_DONE and FAILED are left by no step.
FileStepsOnly ==
    [][(run' = run /\ pc' # "flow_aborted")
          => \A f \in DOMAIN file_list : FileStep(FileState(f), FileState(f)')]_vars

\* C28: a file's load goes PENDING, NODES_LOADING, NODES_DONE,
\* EDGES_LOADING, EDGES_DONE, or from a loading state to FAILED, and every
\* file handed to upsert_files ends in EDGES_DONE or FAILED: when
\* upsert_files has returned or raised, no file is left in another state.
C28_EveryFileEnds ==
    pc \in {"flow_done", "flow_raised"}
        => \A f \in DOMAIN file_list : FileState(f) \in {"EDGES_DONE", "FAILED"}

====
